---- MODULE Spec2Model ----
(***************************************************************************)
(* Space-filling curves of the spacecurve crate: the Onion, Hairy Onion,   *)
(* Scan, Gray and Z-order mappings between a linear index in [0, S^N) and  *)
(* a point of [0, S)^N, with a caller that constructs a curve and calls    *)
(* point and index on it (Spec), and the grid specification and the curve  *)
(* registry with a caller of their functions (RegistrySpec).               *)
(*                                                                         *)
(* A point is a sequence of coordinates; axis k of the source (0-based)    *)
(* is element k + 1 of the sequence.  Inside the curves all u32 quantities *)
(* stay far below 2^31 for the grids the bounds admit; the length of a     *)
(* grid specification is a full u32, held as two 16-bit halves.            *)
(***************************************************************************)
EXTENDS Integers, Sequences, FiniteSets, TLC

\* Bounds of the model: grids with 1..MaxDim axes, side 1..MaxSide and at
\* most MaxLen points.
MaxDim == 5
MaxSide == 7
MaxLen == 1300

\* Bounds of the registry calls: dimensions 0..MaxDimension, and the sides
\* 0..MaxSmallSize, 2^k and 2^k - 1 for k in 0..MaxOrder.
MaxDimension == 33
MaxSmallSize == 17
MaxOrder == 16

\* Bounds of the rectangular onion calls: boxes of 0..MaxArity axes with
\* sides 1..MaxRectSide.
MaxArity == 3
MaxRectSide == 5

\* Bounds of the membership mask calls: 0..MaxPoints points and at most
\* MaxSegments segment indices per call.
MaxPoints == 3
MaxSegments == 2

\* Marker for "no value" in an integer slot, and the result of a panic.
None == -1
Panic == -2
PanicPoint == <<Panic>>

VARIABLES curve, dimension, size, length, bits_per_axis,
          op, i, p, r, q, prev, seen,
          call, args, ret, found_entry, include_experimental, names,
          rect_sizes, rect_op, rect_i, rect_p, rect_r, rect_q,
          scratch, segments, total_points, mask, mask_op,
          part_dimension, part_size, part_op, part_side, part_sizes, part_total

curve_vars == <<curve, dimension, size, length, bits_per_axis,
                op, i, p, r, q, prev, seen>>

registry_vars == <<call, args, ret, found_entry, include_experimental, names>>

rect_vars == <<rect_sizes, rect_op, rect_i, rect_p, rect_r, rect_q>>

mask_vars == <<scratch, segments, total_points, mask, mask_op>>

part_vars == <<part_dimension, part_size, part_op, part_side, part_sizes, part_total>>

vars == <<curve_vars, registry_vars, rect_vars, mask_vars, part_vars>>

----------------------------------------------------------------------------
\* Integer helpers

\* u32::saturating_sub
saturating_sub(a, b) == IF a >= b THEN a - b ELSE 0

\* u32::pow
RECURSIVE pow(_, _)
pow(base, exp) == IF exp = 0 THEN 1 ELSE base * pow(base, exp - 1)

\* Checked exponent helper (never overflows for the bounded grids).
pow_u32(base, exp) == pow(base, exp)

min2(a, b) == IF a <= b THEN a ELSE b

\* Iterator::sum over the first n elements of a sequence
RECURSIVE sum_take(_, _)
sum_take(s, n) == IF n = 0 THEN 0 ELSE s[n] + sum_take(s, n - 1)

\* Iterator::fold(1, checked_mul) over a sequence
RECURSIVE product(_)
product(s) == IF Len(s) = 0 THEN 1 ELSE Head(s) * product(Tail(s))

\* Iterator::min over the per-coordinate distance to the nearest face
\* (unwrap_or(0) for the empty point)
RECURSIVE min_face_distance(_, _)
min_face_distance(side, pt) ==
  IF Len(pt) = 0 THEN 0
  ELSE LET d == min2(Head(pt), side - 1 - Head(pt)) IN
       IF Len(pt) = 1 THEN d
       ELSE min2(d, min_face_distance(side, Tail(pt)))

----------------------------------------------------------------------------
\* 2D specialisation of the Onion curve (continuous spiral on a square)

RECURSIVE onion_index_2d(_, _)
onion_index_2d(l, pt) ==
  IF l <= 1 THEN 0
  ELSE LET x == pt[1]
           y == pt[2]
       IN IF y = 0 THEN x
          ELSE IF x = l - 1 THEN l - 1 + y
          ELSE IF y = l - 1 THEN 3 * l - 3 - x
          ELSE IF x = 0 THEN 4 * l - 4 - y
          ELSE (4 * l - 4) + onion_index_2d(saturating_sub(l, 2), <<x - 1, y - 1>>)

RECURSIVE onion_point_2d(_, _)
\* onion_point_2d with the top edge walked left to right
onion_point_2d_top_edge_forward(l, index) ==
  IF l = 1 THEN <<0, 0>>
  ELSE IF l = 0 THEN PanicPoint
  ELSE LET outer_layer_size == 4 * l - 4 IN
       IF index >= outer_layer_size
       THEN LET p_inner == onion_point_2d(saturating_sub(l, 2), index - outer_layer_size) IN
            IF p_inner = PanicPoint THEN PanicPoint
            ELSE <<p_inner[1] + 1, p_inner[2] + 1>>
       ELSE IF index < l THEN <<index, 0>>
       ELSE IF index < 2 * l - 1 THEN <<l - 1, index - l + 1>>
       ELSE IF index < 3 * l - 2 THEN <<index - (2 * l - 1), l - 1>>
       ELSE <<0, 4 * l - 4 - index>>

onion_point_2d(l, index) ==
  IF l = 1 THEN <<0, 0>>
  ELSE IF l = 0 THEN PanicPoint
  ELSE LET outer_layer_size == 4 * l - 4 IN
       IF index >= outer_layer_size
       THEN LET p_inner == onion_point_2d(saturating_sub(l, 2), index - outer_layer_size) IN
            IF p_inner = PanicPoint THEN PanicPoint
            ELSE <<p_inner[1] + 1, p_inner[2] + 1>>
       ELSE IF index < l THEN <<index, 0>>
       ELSE IF index < 2 * l - 1 THEN <<l - 1, index - l + 1>>
       ELSE IF index < 3 * l - 2 THEN <<3 * l - 3 - index, l - 1>>
       ELSE <<0, 4 * l - 4 - index>>

----------------------------------------------------------------------------
\* L=2 specialisation of the Onion curve (reflected Gray code on dimension)

RECURSIVE onion_index_l2(_, _)
onion_index_l2(n, pt) ==
  IF n = 0 THEN 0
  ELSE LET dim_prev == n - 1
           volume_prev == pow(2, dim_prev)
           last == pt[n]
           i_prev == onion_index_l2(dim_prev, SubSeq(pt, 1, n - 1))
       IN IF last = 0 THEN i_prev
          ELSE (volume_prev - 1) - i_prev + volume_prev

RECURSIVE onion_point_l2(_, _)

\* onion_point_l2 that does not reverse the lower-dimensional index in the
\* upper half
onion_point_l2_no_reflect(n, index) ==
  IF n = 0 THEN <<>>
  ELSE LET dim_prev == n - 1
           volume_prev == pow(2, dim_prev)
           last == IF index < volume_prev THEN 0 ELSE 1
           i_prev == IF index < volume_prev THEN index
                     ELSE index - volume_prev
       IN Append(onion_point_l2(dim_prev, i_prev), last)

onion_point_l2(n, index) ==
  IF n = 0 THEN <<>>
  ELSE LET dim_prev == n - 1
           volume_prev == pow(2, dim_prev)
           last == IF index < volume_prev THEN 0 ELSE 1
           i_prev == IF index < volume_prev THEN index
                     ELSE (volume_prev - 1) - (index - volume_prev)
       IN Append(onion_point_l2(dim_prev, i_prev), last)

----------------------------------------------------------------------------
\* Rectangular onion used on half-faces: per-axis side lengths `sizes`,
\* coordinates 0 <= pt[k] < sizes[k].

\* inner_sizes: every side shrunk by 2, saturating at 0
rect_inner_sizes(sizes) == [k \in 1..Len(sizes) |-> saturating_sub(sizes[k], 2)]

\* is_inner: no axis is degenerate and no coordinate lies on the boundary
rect_is_inner(sizes, pt) ==
  \A k \in 1..Len(sizes) :
     ~(sizes[k] <= 1 \/ pt[k] = 0 \/ pt[k] = sizes[k] - 1)

\* first boundary dimension i* (0-based), None when there is none
RECURSIVE rect_i_star(_, _, _)
rect_i_star(sizes, pt, k) ==
  IF k >= Len(sizes) THEN None
  ELSE IF sizes[k + 1] = 0 THEN rect_i_star(sizes, pt, k + 1)
  ELSE IF pt[k + 1] = 0 \/ pt[k + 1] = sizes[k + 1] - 1 THEN k
  ELSE rect_i_star(sizes, pt, k + 1)

\* pre product: prod over k < j of (L_k - 2)
rect_pre(sizes, j) == product(rect_inner_sizes(SubSeq(sizes, 1, j)))

\* post product: prod over k > j of L_k
rect_post(sizes, j) == product(SubSeq(sizes, j + 2, Len(sizes)))

\* size(P_j) = side_factor * pre * post
rect_size_pj(sizes, j) ==
  LET side_factor == IF sizes[j + 1] >= 2 THEN 2 ELSE 1
  IN side_factor * rect_pre(sizes, j) * rect_post(sizes, j)

\* offset of the partitions P_j for j < i*
RECURSIVE rect_offset_p(_, _)
rect_offset_p(sizes, i_star) ==
  IF i_star = 0 THEN 0
  ELSE rect_offset_p(sizes, i_star - 1) + rect_size_pj(sizes, i_star - 1)

\* face_block = pre_i * post_i
rect_face_block(sizes, i_star) == rect_pre(sizes, i_star) * rect_post(sizes, i_star)

\* sides of the face: L_k - 2 left of i*, L_k right of it
rect_face_sizes(sizes, i_star) ==
  rect_inner_sizes(SubSeq(sizes, 1, i_star)) \o SubSeq(sizes, i_star + 2, Len(sizes))

\* coordinates on the face without the shift of the axes left of i*
rect_face_coords_unshifted(pt, i_star) ==
  SubSeq(pt, 1, i_star) \o SubSeq(pt, i_star + 2, Len(pt))

\* coordinates on the face: q_k - 1 left of i*, q_k right of it
rect_face_coords(pt, i_star) ==
  [k \in 1..i_star |-> pt[k] - 1] \o SubSeq(pt, i_star + 2, Len(pt))

RECURSIVE onion_index_rect(_, _)
onion_index_rect(sizes, pt) ==
  LET m == Len(sizes) IN
  IF m = 0 THEN 0
  ELSE IF m = 1 THEN pt[1]
  ELSE
    LET inner_sizes == rect_inner_sizes(sizes)
        is_inner == rect_is_inner(sizes, pt)
        total == product(sizes)
        inner_vol == product(inner_sizes)
        outer == total - inner_vol
    IN IF is_inner
       THEN LET p_inner == [k \in 1..Len(pt) |-> pt[k] - 1]
                sub == onion_index_rect(inner_sizes, p_inner)
            IN IF sub = Panic THEN Panic ELSE outer + sub
       ELSE LET i_star == rect_i_star(sizes, pt, 0) IN
            IF i_star = None THEN Panic
            ELSE LET offset_p == rect_offset_p(sizes, i_star)
                     face_block == rect_face_block(sizes, i_star)
                     offset_sub ==
                       IF sizes[i_star + 1] >= 2 /\ pt[i_star + 1] = sizes[i_star + 1] - 1
                       THEN face_block ELSE 0
                     i_face == onion_index_rect(rect_face_sizes(sizes, i_star),
                                                rect_face_coords(pt, i_star))
                 IN IF i_face = Panic THEN Panic
                    ELSE offset_p + offset_sub + i_face

\* the partition search of onion_point_rect: <<i*, index left>> or
\* <<None, index left>> when the loop runs off the end
RECURSIVE rect_find_partition(_, _, _)
rect_find_partition(sizes, j, index) ==
  IF j >= Len(sizes) THEN <<None, index>>
  ELSE LET size_pj == rect_size_pj(sizes, j) IN
       IF index < size_pj THEN <<j, index>>
       ELSE rect_find_partition(sizes, j + 1, index - size_pj)

RECURSIVE onion_point_rect(_, _)
onion_point_rect(sizes, index) ==
  LET m == Len(sizes) IN
  IF m = 0 THEN <<>>
  ELSE IF m = 1 THEN <<index>>
  ELSE
    LET inner_sizes == rect_inner_sizes(sizes)
        total == product(sizes)
        inner_vol == product(inner_sizes)
        outer == total - inner_vol
    IN IF index >= outer
       THEN LET p_inner == onion_point_rect(inner_sizes, index - outer) IN
            IF p_inner = PanicPoint THEN PanicPoint
            ELSE [k \in 1..Len(p_inner) |-> p_inner[k] + 1]
       ELSE LET found == rect_find_partition(sizes, 0, index)
                i_star == found[1]
            IN IF i_star = None THEN PanicPoint
               ELSE LET face_block == rect_face_block(sizes, i_star)
                        two_sided == sizes[i_star + 1] >= 2
                        high_side == two_sided /\ found[2] >= face_block
                        index_face == IF high_side THEN found[2] - face_block ELSE found[2]
                        face_coords == onion_point_rect(rect_face_sizes(sizes, i_star),
                                                        index_face)
                        coord_i == IF two_sided
                                   THEN (IF high_side THEN sizes[i_star + 1] - 1 ELSE 0)
                                   ELSE 0
                    IN IF face_coords = PanicPoint \/ Len(face_coords) < i_star
                       THEN PanicPoint
                       ELSE [k \in 1..i_star |-> face_coords[k] + 1]
                            \o <<coord_i>>
                            \o SubSeq(face_coords, i_star + 1, Len(face_coords))

----------------------------------------------------------------------------
\* Onion curve: shells

\* Number of points on the outer shell of a side^dimension cube.
shell_size(dim, side) ==
  IF side = 0 THEN 0
  ELSE pow_u32(side, dim) - pow_u32(saturating_sub(side, 2), dim)

\* A shell: level from the outside, side of its cube, points before it,
\* index relative to its start.
Shell(level, side, offset, index_within) ==
  [level |-> level, side |-> side, offset |-> offset, index_within |-> index_within]

\* the loop of shell_for_index
RECURSIVE shell_for_index_loop(_, _, _, _, _)
shell_for_index_loop(dim, side_at_level, level, offset, index) ==
  LET sz == shell_size(dim, side_at_level) IN
  IF index < sz THEN Shell(level, side_at_level, offset, index)
  ELSE shell_for_index_loop(dim, saturating_sub(side_at_level, 2), level + 1,
                            offset + sz, index - sz)

\* Locate the shell that contains `index`.
shell_for_index(dim, side, index) == shell_for_index_loop(dim, side, 0, 0, index)

\* the loop of shell_for_point: `todo` levels still to skip
RECURSIVE shell_for_point_loop(_, _, _, _)
shell_for_point_loop(dim, side_at_level, offset, todo) ==
  IF todo = 0 THEN <<side_at_level, offset>>
  ELSE shell_for_point_loop(dim, saturating_sub(side_at_level, 2),
                            offset + shell_size(dim, side_at_level), todo - 1)

\* Locate the shell and offset for a given point.
shell_for_point(dim, side, pt) ==
  LET level == min_face_distance(side, pt)
      at == shell_for_point_loop(dim, side, 0, level)
  IN Shell(level, at[1], at[2], 0)

\* First boundary coordinate <<dimension (0-based), high_side>> of a
\* shell-local point; <<0, FALSE>> when there is none.
RECURSIVE first_boundary_from(_, _, _)
first_boundary_from(local, side, k) ==
  IF k >= Len(local) THEN <<0, FALSE>>
  ELSE IF local[k + 1] = 0 THEN <<k, FALSE>>
  ELSE IF local[k + 1] + 1 = side THEN <<k, TRUE>>
  ELSE first_boundary_from(local, side, k + 1)

first_boundary(local, side) == first_boundary_from(local, side, 0)

\* partition sizes that are twice the whole cube
partition_sizes_whole_cube(dim, side) == [k \in 1..dim |-> 2 * pow_u32(side, dim)]

\* partition sizes that count one half-face per axis
partition_sizes_half(dim, side) ==
  LET inner == saturating_sub(side, 2) IN
  [k \in 1..dim |-> pow_u32(inner, k - 1) * pow_u32(side, dim - 1 - (k - 1))]

\* Size of each partition P_j on the shell, by first boundary dimension.
partition_sizes(dim, side) ==
  LET inner == saturating_sub(side, 2) IN
  [k \in 1..dim |-> 2 * pow_u32(inner, k - 1) * pow_u32(side, dim - 1 - (k - 1))]

\* Side lengths of the (N-1)-D face when fixing boundary_dim.
face_sizes(dim, side, boundary_dim) ==
  LET inner == saturating_sub(side, 2) IN
  [k \in 1..(dim - 1) |-> IF k <= boundary_dim THEN inner ELSE side]

\* Map shell-local coordinates into face-local coordinates.
face_coords_from_point(local, boundary_dim) ==
  [k \in 1..boundary_dim |-> saturating_sub(local[k], 1)]
  \o SubSeq(local, boundary_dim + 2, Len(local))

\* rebuild_from_face that does not shift the left block back by one
rebuild_from_face_no_shift(face_coords, boundary_dim, side, high_side) ==
  [k \in 1..boundary_dim |->
      (IF k <= Len(face_coords) THEN face_coords[k] ELSE 0)]
  \o <<IF high_side THEN side - 1 ELSE 0>>
  \o SubSeq(face_coords, boundary_dim + 1, Len(face_coords))

\* Rebuild full shell-local coordinates from face-local ones.
rebuild_from_face(face_coords, boundary_dim, side, high_side) ==
  [k \in 1..boundary_dim |->
      (IF k <= Len(face_coords) THEN face_coords[k] ELSE 0) + 1]
  \o <<IF high_side THEN side - 1 ELSE 0>>
  \o SubSeq(face_coords, boundary_dim + 1, Len(face_coords))

\* size of one half-face of partition boundary_dim
sub_part_size(dim, side, boundary_dim) ==
  pow_u32(saturating_sub(side, 2), boundary_dim) * pow_u32(side, dim - 1 - boundary_dim)

\* Index within a shell for a shell-local point.
onion_shell_index(dim, side, local) ==
  IF side = 1 THEN 0
  ELSE IF side = 2 THEN onion_index_l2(dim, local)
  ELSE IF dim = 1 THEN local[1]
  ELSE IF dim = 2 THEN onion_index_2d(side, local)
  ELSE LET fb == first_boundary(local, side)
           boundary_dim == fb[1]
           high_side == fb[2]
           offsets == partition_sizes(dim, side)
           offset_p == sum_take(offsets, boundary_dim)
           offset_sub == IF high_side THEN sub_part_size(dim, side, boundary_dim) ELSE 0
           within == onion_index_rect(face_sizes(dim, side, boundary_dim),
                                      face_coords_from_point(local, boundary_dim))
       IN IF within = Panic THEN Panic ELSE offset_p + offset_sub + within

\* the partition search of onion_shell_point: <<boundary_dim, index left>>;
\* boundary_dim stays 0 when the loop runs off the end
RECURSIVE shell_find_partition(_, _, _)
shell_find_partition(partitions, j, index) ==
  IF j >= Len(partitions) THEN <<0, index>>
  ELSE IF index < partitions[j + 1] THEN <<j, index>>
  ELSE shell_find_partition(partitions, j + 1, index - partitions[j + 1])

\* Shell-local coordinates from an index inside the shell.
onion_shell_point(dim, side, index) ==
  IF side = 1 THEN [k \in 1..dim |-> 0]
  ELSE IF side = 2 THEN onion_point_l2(dim, index)
  ELSE IF dim = 1 THEN <<index>>
  ELSE IF dim = 2 THEN onion_point_2d(side, index)
  ELSE LET found == shell_find_partition(partition_sizes(dim, side), 0, index)
           boundary_dim == found[1]
           half == sub_part_size(dim, side, boundary_dim)
           high_side == ~(found[2] < half)
           index_face == IF high_side THEN found[2] - half ELSE found[2]
           face_coords == onion_point_rect(face_sizes(dim, side, boundary_dim), index_face)
       IN IF face_coords = PanicPoint THEN PanicPoint
          ELSE rebuild_from_face(face_coords, boundary_dim, side, high_side)

----------------------------------------------------------------------------
\* Onion curve: N-D entry points and the 3D specialisation

RECURSIVE onion_index_nd(_, _, _)
RECURSIVE onion_point_nd(_, _, _)

\* Cube volume helper of the 3D ordering.
cube_volume(side) == pow_u32(side, 3)

\* Specialised 3D outer-shell ordering.
onion_index_3d(side_length, pt) ==
  LET layer == min_face_distance(side_length, pt)
      inner == side_length - layer * 2
  IN
  IF inner <= 1 THEN cube_volume(side_length) - 1
  ELSE
    LET local == <<pt[1] - layer, pt[2] - layer, pt[3] - layer>>
        face_area == pow_u32(inner, 2)
        inner_minus_two == saturating_sub(inner, 2)
        rect_area == pow_u32(inner_minus_two, 2)
        off0 == cube_volume(side_length) - cube_volume(inner)
        off1 == off0 + face_area
        off2 == off1 + face_area
        off3 == off2 + inner_minus_two
        off4 == off3 + rect_area
        off5 == off4 + inner_minus_two
        off6 == off5 + inner_minus_two
        off7 == off6 + rect_area
        off8 == off7 + inner_minus_two
        off9 == off8 + rect_area
        xz == <<local[1] - 1, local[3] - 1>>
        xy == <<local[1] - 1, local[2] - 1>>
    IN
    IF local[1] = 0 THEN off0 + onion_index_nd(2, inner, <<local[2], local[3]>>)
    ELSE IF local[1] = inner - 1
      THEN off1 + onion_index_nd(2, inner, <<local[2], local[3]>>)
    ELSE IF inner_minus_two = 0 THEN off2
    ELSE IF local[2] = 0 /\ local[3] = 0 THEN off2 + (local[1] - 1)
    ELSE IF local[2] = 0 /\ local[3] > 0 /\ local[3] < inner - 1
      THEN off3 + onion_index_nd(2, inner_minus_two, xz)
    ELSE IF local[2] = 0 /\ local[3] = inner - 1 THEN off4 + (local[1] - 1)
    ELSE IF local[2] = inner - 1 /\ local[3] = 0 THEN off5 + (local[1] - 1)
    ELSE IF local[2] = inner - 1 /\ local[3] > 0 /\ local[3] < inner - 1
      THEN off6 + onion_index_nd(2, inner_minus_two, xz)
    ELSE IF local[2] = inner - 1 /\ local[3] = inner - 1 THEN off7 + (local[1] - 1)
    ELSE IF local[3] = 0 THEN off8 + onion_index_nd(2, inner_minus_two, xy)
    ELSE off9 + onion_index_nd(2, inner_minus_two, xy)

\* the shell search of onion_point_3d: <<layer, current_len, remaining>>
RECURSIVE point_3d_shell(_, _, _)
point_3d_shell(current_len, layer, remaining) ==
  LET next_len == saturating_sub(current_len, 2)
      sz == cube_volume(current_len) - cube_volume(next_len)
  IN IF remaining < sz THEN <<layer, current_len, remaining>>
     ELSE point_3d_shell(next_len, layer + 1, remaining - sz)

\* the 3D point through the general shell ordering
onion_point_3d_general(side_length, index) ==
  LET shell == shell_for_index(3, side_length, index)
      local == onion_shell_point(3, shell.side, shell.index_within)
  IN [k \in 1..3 |-> local[k] + shell.level]

\* Inverse of the specialised 3D outer-shell ordering.
onion_point_3d(side_length, index) ==
  LET sh == point_3d_shell(side_length, 0, index)
      layer == sh[1]
      current_len == sh[2]
  IN
  IF current_len <= 1 THEN <<layer, layer, layer>>
  ELSE
    LET inner == current_len
        inner_minus_two == saturating_sub(inner, 2)
        face_area == pow_u32(inner, 2)
        rect_area == pow_u32(inner_minus_two, 2)
        hi == layer + inner - 1
        rem0 == sh[3]
        rem1 == rem0 - face_area
        rem2 == rem1 - face_area
        rem3 == rem2 - inner_minus_two
        rem4 == rem3 - rect_area
        rem5 == rem4 - inner_minus_two
        rem6 == rem5 - inner_minus_two
        rem7 == rem6 - rect_area
        rem8 == rem7 - inner_minus_two
        rem9 == rem8 - rect_area
    IN
    IF rem0 < face_area
      THEN LET yz == onion_point_nd(2, inner, rem0)
           IN <<layer, yz[1] + layer, yz[2] + layer>>
    ELSE IF rem1 < face_area
      THEN LET yz == onion_point_nd(2, inner, rem1)
           IN <<hi, yz[1] + layer, yz[2] + layer>>
    ELSE IF inner_minus_two = 0 THEN <<layer, layer, hi>>
    ELSE IF rem2 < inner_minus_two THEN <<layer + 1 + rem2, layer, layer>>
    ELSE IF rem3 < rect_area
      THEN LET coords == onion_point_nd(2, inner_minus_two, rem3)
           IN <<layer + 1 + coords[1], layer, layer + 1 + coords[2]>>
    ELSE IF rem4 < inner_minus_two THEN <<layer + 1 + rem4, layer, hi>>
    ELSE IF rem5 < inner_minus_two THEN <<layer + 1 + rem5, hi, layer>>
    ELSE IF rem6 < rect_area
      THEN LET coords == onion_point_nd(2, inner_minus_two, rem6)
           IN <<layer + 1 + coords[1], hi, layer + 1 + coords[2]>>
    ELSE IF rem7 < inner_minus_two THEN <<layer + 1 + rem7, hi, hi>>
    ELSE IF rem8 < rect_area
      THEN LET coords == onion_point_nd(2, inner_minus_two, rem8)
           IN <<layer + 1 + coords[1], layer + 1 + coords[2], layer>>
    ELSE LET coords == onion_point_nd(2, inner_minus_two, rem9)
         IN <<layer + 1 + coords[1], layer + 1 + coords[2], hi>>

\* Full onion index for a point in an N-D cube.
onion_index_nd(dim, side, pt) ==
  IF dim = 0 \/ side = 0 THEN 0
  ELSE IF dim = 3 /\ side > 2 THEN onion_index_3d(side, pt)
  ELSE LET shell == shell_for_point(dim, side, pt)
           local == [k \in 1..Len(pt) |-> pt[k] - shell.level]
           within == onion_shell_index(dim, shell.side, local)
       IN IF within = Panic THEN Panic ELSE shell.offset + within

\* Full onion coordinates for an index in an N-D cube.
onion_point_nd(dim, side, index) ==
  IF dim = 0 \/ side = 0 THEN <<>>
  ELSE IF dim = 3 /\ side > 2 THEN onion_point_3d(side, index)
  ELSE LET shell == shell_for_index(dim, side, index)
           local == onion_shell_point(dim, shell.side, shell.index_within)
       IN IF local = PanicPoint THEN PanicPoint
          ELSE [k \in 1..Len(local) |-> local[k] + shell.level]

----------------------------------------------------------------------------
\* Onion curve: the values of the checked powers and products (pow_u32,
\* checked_mul, checked_add) that a call evaluates, as sets.

\* a fold of checked_mul from 1 over s: every partial product
prefix_products(s) == {product(SubSeq(s, 1, k)) : k \in 1..Len(s)}

\* shell_size: the two powers
products_shell_size(dim, side) ==
  IF side = 0 THEN {}
  ELSE {pow_u32(side, dim), pow_u32(saturating_sub(side, 2), dim)}

\* partition_sizes: pre, post, 2 * pre and 2 * pre * post of every j
products_partition_sizes(dim, side) ==
  LET inner == saturating_sub(side, 2) IN
  UNION {{pow_u32(inner, j), pow_u32(side, dim - 1 - j), 2 * pow_u32(inner, j),
          partition_sizes(dim, side)[j + 1]} : j \in 0..(dim - 1)}

\* sub_part_size (the half-face): the two powers and their product
products_sub_part_size(dim, side, boundary_dim) ==
  {pow_u32(saturating_sub(side, 2), boundary_dim),
   pow_u32(side, dim - 1 - boundary_dim),
   sub_part_size(dim, side, boundary_dim)}

\* the loop of shell_for_index: shell_size of every side tried
RECURSIVE products_shell_for_index(_, _, _)
products_shell_for_index(dim, side_at_level, index) ==
  LET sz == shell_size(dim, side_at_level) IN
  products_shell_size(dim, side_at_level)
    \cup IF index < sz THEN {}
         ELSE products_shell_for_index(dim, saturating_sub(side_at_level, 2), index - sz)

\* the loop of shell_for_point: shell_size of every level skipped
RECURSIVE products_shell_for_point(_, _, _)
products_shell_for_point(dim, side_at_level, todo) ==
  IF todo = 0 THEN {}
  ELSE products_shell_size(dim, side_at_level)
         \cup products_shell_for_point(dim, saturating_sub(side_at_level, 2), todo - 1)

\* total and inner volume of a box
products_volumes(sizes) ==
  prefix_products(sizes) \cup prefix_products(rect_inner_sizes(sizes))

\* size(P_j): pre, post, side_factor * pre and the size
products_size_pj(sizes, j) ==
  LET side_factor == IF sizes[j + 1] >= 2 THEN 2 ELSE 1 IN
  prefix_products(rect_inner_sizes(SubSeq(sizes, 1, j)))
    \cup prefix_products(SubSeq(sizes, j + 2, Len(sizes)))
    \cup {side_factor * rect_pre(sizes, j), rect_size_pj(sizes, j)}

\* face_block: pre_i, post_i and their product
products_face_block(sizes, i_star) ==
  prefix_products(rect_inner_sizes(SubSeq(sizes, 1, i_star)))
    \cup prefix_products(SubSeq(sizes, i_star + 2, Len(sizes)))
    \cup {rect_face_block(sizes, i_star)}

RECURSIVE products_index_rect(_, _)
products_index_rect(sizes, pt) ==
  IF Len(sizes) <= 1 THEN {}
  ELSE products_volumes(sizes) \cup
    IF rect_is_inner(sizes, pt)
    THEN products_index_rect(rect_inner_sizes(sizes), [k \in 1..Len(pt) |-> pt[k] - 1])
    ELSE LET i_star == rect_i_star(sizes, pt, 0) IN
         IF i_star = None THEN {}
         ELSE UNION {products_size_pj(sizes, j) : j \in 0..(i_star - 1)}
                \cup {rect_offset_p(sizes, k) : k \in 1..i_star}
                \cup products_face_block(sizes, i_star)
                \cup products_index_rect(rect_face_sizes(sizes, i_star),
                                         rect_face_coords(pt, i_star))

RECURSIVE products_point_rect(_, _)
products_point_rect(sizes, index) ==
  IF Len(sizes) <= 1 THEN {}
  ELSE products_volumes(sizes) \cup
    LET inner_sizes == rect_inner_sizes(sizes)
        outer == product(sizes) - product(inner_sizes)
    IN IF index >= outer THEN products_point_rect(inner_sizes, index - outer)
       ELSE LET found == rect_find_partition(sizes, 0, index)
                i_star == found[1]
            IN IF i_star = None
               THEN UNION {products_size_pj(sizes, j) : j \in 0..(Len(sizes) - 1)}
               ELSE LET face_block == rect_face_block(sizes, i_star)
                        high_side == sizes[i_star + 1] >= 2 /\ found[2] >= face_block
                        index_face == IF high_side THEN found[2] - face_block ELSE found[2]
                    IN UNION {products_size_pj(sizes, j) : j \in 0..i_star}
                         \cup products_face_block(sizes, i_star)
                         \cup products_point_rect(rect_face_sizes(sizes, i_star), index_face)

\* onion_shell_index
products_shell_index(dim, side, local) ==
  IF side = 1 \/ side = 2 \/ dim = 1 \/ dim = 2 THEN {}
  ELSE LET boundary_dim == first_boundary(local, side)[1] IN
       products_partition_sizes(dim, side)
         \cup products_shell_size(dim, side)
         \cup products_sub_part_size(dim, side, boundary_dim)
         \cup products_index_rect(face_sizes(dim, side, boundary_dim),
                                  face_coords_from_point(local, boundary_dim))

\* onion_shell_point
products_shell_point(dim, side, index) ==
  IF side = 1 \/ side = 2 \/ dim = 1 \/ dim = 2 THEN {}
  ELSE LET found == shell_find_partition(partition_sizes(dim, side), 0, index)
           boundary_dim == found[1]
           half == sub_part_size(dim, side, boundary_dim)
           index_face == IF found[2] < half THEN found[2] ELSE found[2] - half
       IN products_partition_sizes(dim, side)
            \cup products_shell_size(dim, side)
            \cup products_sub_part_size(dim, side, boundary_dim)
            \cup products_point_rect(face_sizes(dim, side, boundary_dim), index_face)

RECURSIVE products_index_nd(_, _, _)
RECURSIVE products_point_nd(_, _, _)

\* the shell search of onion_point_3d: the cube volumes of every side tried
RECURSIVE products_point_3d_shell(_, _)
products_point_3d_shell(current_len, remaining) ==
  LET next_len == saturating_sub(current_len, 2)
      sz == cube_volume(current_len) - cube_volume(next_len)
  IN {cube_volume(current_len), cube_volume(next_len)}
       \cup IF remaining < sz THEN {}
            ELSE products_point_3d_shell(next_len, remaining - sz)

\* onion_index_3d
products_index_3d(side_length, pt) ==
  LET layer == min_face_distance(side_length, pt)
      inner == side_length - layer * 2
  IN
  {cube_volume(side_length)} \cup
  IF inner <= 1 THEN {}
  ELSE
    LET local == <<pt[1] - layer, pt[2] - layer, pt[3] - layer>>
        inner_minus_two == saturating_sub(inner, 2)
        rect_area == pow_u32(inner_minus_two, 2)
        xz == <<local[1] - 1, local[3] - 1>>
        xy == <<local[1] - 1, local[2] - 1>>
    IN
    {cube_volume(inner), pow_u32(inner, 2)} \cup
    IF local[1] = 0 \/ local[1] = inner - 1
      THEN products_index_nd(2, inner, <<local[2], local[3]>>)
    ELSE IF inner_minus_two = 0 THEN {}
    ELSE IF local[2] = 0 /\ local[3] = 0 THEN {}
    ELSE IF local[2] = 0 /\ local[3] > 0 /\ local[3] < inner - 1
      THEN products_index_nd(2, inner_minus_two, xz)
    ELSE IF local[2] = 0 /\ local[3] = inner - 1 THEN {rect_area}
    ELSE IF local[2] = inner - 1 /\ local[3] = 0 THEN {rect_area}
    ELSE IF local[2] = inner - 1 /\ local[3] > 0 /\ local[3] < inner - 1
      THEN {rect_area} \cup products_index_nd(2, inner_minus_two, xz)
    ELSE IF local[2] = inner - 1 /\ local[3] = inner - 1 THEN {rect_area}
    ELSE {rect_area} \cup products_index_nd(2, inner_minus_two, xy)

\* onion_point_3d
products_point_3d(side_length, index) ==
  LET sh == point_3d_shell(side_length, 0, index)
      current_len == sh[2]
  IN
  products_point_3d_shell(side_length, index) \cup
  IF current_len <= 1 THEN {}
  ELSE
    LET inner == current_len
        inner_minus_two == saturating_sub(inner, 2)
        face_area == pow_u32(inner, 2)
        rect_area == pow_u32(inner_minus_two, 2)
        rem0 == sh[3]
        rem1 == rem0 - face_area
        rem2 == rem1 - face_area
        rem3 == rem2 - inner_minus_two
        rem4 == rem3 - rect_area
        rem5 == rem4 - inner_minus_two
        rem6 == rem5 - inner_minus_two
        rem7 == rem6 - rect_area
        rem8 == rem7 - inner_minus_two
        rem9 == rem8 - rect_area
    IN
    {face_area} \cup
    IF rem0 < face_area THEN products_point_nd(2, inner, rem0)
    ELSE IF rem1 < face_area THEN products_point_nd(2, inner, rem1)
    ELSE IF inner_minus_two = 0 THEN {}
    ELSE IF rem2 < inner_minus_two THEN {}
    ELSE {rect_area} \cup
      IF rem3 < rect_area THEN products_point_nd(2, inner_minus_two, rem3)
      ELSE IF rem4 < inner_minus_two THEN {}
      ELSE IF rem5 < inner_minus_two THEN {}
      ELSE IF rem6 < rect_area THEN products_point_nd(2, inner_minus_two, rem6)
      ELSE IF rem7 < inner_minus_two THEN {}
      ELSE IF rem8 < rect_area THEN products_point_nd(2, inner_minus_two, rem8)
      ELSE products_point_nd(2, inner_minus_two, rem9)

\* onion_index_nd
products_index_nd(dim, side, pt) ==
  IF dim = 0 \/ side = 0 THEN {}
  ELSE IF dim = 3 /\ side > 2 THEN products_index_3d(side, pt)
  ELSE LET shell == shell_for_point(dim, side, pt)
           local == [k \in 1..Len(pt) |-> pt[k] - shell.level]
       IN products_shell_for_point(dim, side, shell.level)
            \cup products_shell_index(dim, shell.side, local)

\* onion_point_nd
products_point_nd(dim, side, index) ==
  IF dim = 0 \/ side = 0 THEN {}
  ELSE IF dim = 3 /\ side > 2 THEN products_point_3d(side, index)
  ELSE LET shell == shell_for_index(dim, side, index)
       IN products_shell_for_index(dim, side, index)
            \cup products_shell_point(dim, shell.side, shell.index_within)

----------------------------------------------------------------------------
\* Hairy Onion: 2D onion tiles stacked along the remaining N-2 axes

RECURSIVE hairy_onion_index_recursive(_, _, _)
hairy_onion_index_recursive(n, l, pt) ==
  IF l <= 1 \/ n = 0 THEN 0
  ELSE IF n = 1 THEN pt[1]
  ELSE IF n = 2 THEN onion_index_2d(l, pt)
  ELSE LET p_2d == SubSeq(pt, 1, 2)
           p_rest == SubSeq(pt, 3, Len(pt))
           index_rest == hairy_onion_index_recursive(n - 2, l, p_rest)
           index_2d == onion_index_2d(l, p_2d)
           volume_2d == l * l
           index_2d_effective == IF index_rest % 2 = 1
                                 THEN (volume_2d - 1) - index_2d
                                 ELSE index_2d
       IN index_rest * volume_2d + index_2d_effective

RECURSIVE hairy_onion_point_recursive(_, _, _)

\* hairy_onion_point_recursive that does not undo the reflection of odd tiles
hairy_onion_point_no_unreflect(n, l, index) ==
  IF n = 0 THEN <<>>
  ELSE IF l = 1 THEN [k \in 1..n |-> 0]
  ELSE IF l = 0 THEN PanicPoint
  ELSE IF n = 1 THEN <<index>>
  ELSE IF n = 2 THEN onion_point_2d(l, index)
  ELSE LET volume_2d == l * l
           index_rest == index \div volume_2d
           index_2d_effective == index % volume_2d
           p_rest == hairy_onion_point_recursive(n - 2, l, index_rest)
           p_2d == onion_point_2d(l, index_2d_effective)
       IN p_2d \o p_rest

hairy_onion_point_recursive(n, l, index) ==
  IF n = 0 THEN <<>>
  ELSE IF l = 1 THEN [k \in 1..n |-> 0]
  ELSE IF l = 0 THEN PanicPoint
  ELSE IF n = 1 THEN <<index>>
  ELSE IF n = 2 THEN onion_point_2d(l, index)
  ELSE LET volume_2d == l * l
           index_rest == index \div volume_2d
           index_2d_effective == index % volume_2d
           p_rest == hairy_onion_point_recursive(n - 2, l, index_rest)
           index_2d == IF index_rest % 2 = 1
                       THEN (volume_2d - 1) - index_2d_effective
                       ELSE index_2d_effective
           p_2d == onion_point_2d(l, index_2d)
       IN p_2d \o p_rest

----------------------------------------------------------------------------
\* Scan: boustrophedon raster

\* the loop of Scan::point; k axes (k-1 .. 0) are still to decode
RECURSIVE scan_point_loop(_, _, _, _, _)

\* scan_point_loop whose reversed coordinate is off by one
scan_point_loop_off_by_one(sz, k, should_reverse_direction, remaining_index, coordinates) ==
  IF k = 0 THEN coordinates
  ELSE LET dim_idx == k - 1
           stride == pow(sz, dim_idx)
           raw_coordinate == remaining_index \div stride
           c == IF should_reverse_direction THEN sz - raw_coordinate
                ELSE raw_coordinate
           rev == IF c % 2 # 0 THEN ~should_reverse_direction
                  ELSE should_reverse_direction
       IN scan_point_loop(sz, dim_idx, rev, remaining_index - raw_coordinate * stride,
                          [coordinates EXCEPT ![dim_idx + 1] = c])

\* scan_point_loop that toggles the direction on the raw digit
scan_point_loop_toggle_raw(sz, k, should_reverse_direction, remaining_index, coordinates) ==
  IF k = 0 THEN coordinates
  ELSE LET dim_idx == k - 1
           stride == pow(sz, dim_idx)
           raw_coordinate == remaining_index \div stride
           c == IF should_reverse_direction THEN sz - raw_coordinate - 1
                ELSE raw_coordinate
           rev == IF raw_coordinate % 2 # 0 THEN ~should_reverse_direction
                  ELSE should_reverse_direction
       IN scan_point_loop(sz, dim_idx, rev, remaining_index - raw_coordinate * stride,
                          [coordinates EXCEPT ![dim_idx + 1] = c])

scan_point_loop(sz, k, should_reverse_direction, remaining_index, coordinates) ==
  IF k = 0 THEN coordinates
  ELSE LET dim_idx == k - 1
           stride == pow(sz, dim_idx)
           raw_coordinate == remaining_index \div stride
           c == IF should_reverse_direction THEN sz - raw_coordinate - 1
                ELSE raw_coordinate
           rev == IF c % 2 # 0 THEN ~should_reverse_direction
                  ELSE should_reverse_direction
       IN scan_point_loop(sz, dim_idx, rev, remaining_index - raw_coordinate * stride,
                          [coordinates EXCEPT ![dim_idx + 1] = c])

\* Scan::point as a plain raster: no row is reversed
Scan_point_raster(dim, sz, index) ==
  [k \in 1..dim |-> (index \div pow(sz, k - 1)) % sz]

Scan_point(dim, sz, index) ==
  scan_point_loop(sz, dim, FALSE, index, [k \in 1..dim |-> 0])

\* the loop of Scan::index; k axes (k-1 .. 0) are still to encode
RECURSIVE scan_index_loop(_, _, _, _, _)

\* scan_index_loop that toggles the direction on the un-reversed value
scan_index_loop_toggle_actual(sz, k, should_reverse_direction, index_accumulator, pt) ==
  IF k = 0 THEN index_accumulator
  ELSE LET dim_idx == k - 1
           stride == pow(sz, dim_idx)
           coordinate == pt[dim_idx + 1]
           actual_value == IF should_reverse_direction THEN sz - coordinate - 1
                           ELSE coordinate
           rev == IF actual_value % 2 # 0 THEN ~should_reverse_direction
                  ELSE should_reverse_direction
       IN scan_index_loop(sz, dim_idx, rev, index_accumulator + actual_value * stride, pt)

scan_index_loop(sz, k, should_reverse_direction, index_accumulator, pt) ==
  IF k = 0 THEN index_accumulator
  ELSE LET dim_idx == k - 1
           stride == pow(sz, dim_idx)
           coordinate == pt[dim_idx + 1]
           actual_value == IF should_reverse_direction THEN sz - coordinate - 1
                           ELSE coordinate
           rev == IF coordinate % 2 # 0 THEN ~should_reverse_direction
                  ELSE should_reverse_direction
       IN scan_index_loop(sz, dim_idx, rev, index_accumulator + actual_value * stride, pt)

Scan_index(sz, pt) == scan_index_loop(sz, Len(pt), FALSE, 0, pt)

----------------------------------------------------------------------------
\* Bit operations (module ops): Morton interleave and Gray code

\* bit b of x
bit(x, b) == (x \div pow(2, b)) % 2

\* x XOR y
RECURSIVE bitxor(_, _)
bitxor(x, y) ==
  IF x = 0 THEN y
  ELSE IF y = 0 THEN x
  ELSE (((x % 2) + (y % 2)) % 2) + 2 * bitxor(x \div 2, y \div 2)

\* x >> k
shr(x, k) == x \div pow(2, k)

\* Morton code: output bit b*D + k is bit b of coords[k]; bits taken one
\* output position at a time, `n` positions still to place
RECURSIVE interleave_from(_, _, _)
interleave_from(coords, w, n) ==
  IF n = 0 THEN 0
  ELSE LET pos == n - 1
           d == Len(coords)
           k == pos % d
           b == pos \div d
       IN bit(coords[k + 1], b) * pow(2, pos) + interleave_from(coords, w, pos)

interleave_lsb(coords, w) == interleave_from(coords, w, w * Len(coords))

\* bits b*D + k of code, for b < w, gathered into coordinate k
RECURSIVE gather_axis(_, _, _, _)
gather_axis(d, k, code, b) ==
  IF b = 0 THEN 0
  ELSE bit(code, (b - 1) * d + k) * pow(2, b - 1) + gather_axis(d, k, code, b - 1)

deinterleave_lsb(d, w, code) == [k \in 1..d |-> gather_axis(d, k - 1, code, w)]

\* g(x) = x XOR (x >> 1)
graycode(x) == bitxor(x, shr(x, 1))

\* inverse Gray code: the y ^= y >> k ladder over a 32-bit word
igraycode(y) ==
  LET y1 == bitxor(y, shr(y, 1))
      y2 == bitxor(y1, shr(y1, 2))
      y4 == bitxor(y2, shr(y2, 4))
      y8 == bitxor(y4, shr(y4, 8))
  IN bitxor(y8, shr(y8, 16))

----------------------------------------------------------------------------
\* Gray and Z-order curves

\* Gray_point without the Gray code
Gray_point_plain(dim, bits, index) == deinterleave_lsb(dim, bits, index)

Gray_point(dim, bits, index) == deinterleave_lsb(dim, bits, graycode(index))

\* Gray_index applying the forward Gray code instead of its inverse
Gray_index_forward(bits, pt) == graycode(interleave_lsb(pt, bits))

Gray_index(bits, pt) == igraycode(interleave_lsb(pt, bits))

\* ZOrder_point with the axis count and the bit width swapped
ZOrder_point_swapped(dim, bitwidth, index) == deinterleave_lsb(bitwidth, dim, index)

ZOrder_point(dim, bitwidth, index) == deinterleave_lsb(dim, bitwidth, index)

ZOrder_index(bitwidth, pt) == interleave_lsb(pt, bitwidth)

----------------------------------------------------------------------------
\* Onion and Hairy Onion as SpaceCurve instances

OnionCurve_index(dimensions, side_length, pt) ==
  onion_index_nd(dimensions, side_length, pt)

\* the index OnionCurve::point passes on, without the reduction
OnionCurve_point_index_unreduced(len, index) == index

\* the index OnionCurve::point passes on: index % self.length
OnionCurve_point_index(len, index) == index % len

OnionCurve_point(dimensions, side_length, len, index) ==
  onion_point_nd(dimensions, side_length, OnionCurve_point_index(len, index))

HairyOnionCurve_index(dimensions, side_length, pt) ==
  hairy_onion_index_recursive(dimensions, side_length, pt)

HairyOnionCurve_point(dimensions, side_length, len, index) ==
  hairy_onion_point_recursive(dimensions, side_length, index % len)

----------------------------------------------------------------------------
\* Grid specification and curve constructors.  A result is a record whose
\* err field is "" on success and the error kind otherwise.

Err(kind) == [err |-> kind, dimension |-> 0, size |-> 0, length |-> <<0, 0>>,
              order |-> None, bits_per_axis |-> None]

\* Ok(()): no error and no value
Ok == Err("")

\* A u32 that may exceed 2^31 - 1 is held as its two 16-bit halves
\* <<hi, lo>>, of value hi * 65536 + lo.
u32(x) == <<x \div 65536, x % 65536>>

\* The value of a u32 below 2^31.
u32_value(w) == (w[1] * 65536) + w[2]

\* Option::None of a checked operation that overflowed
Overflow == <<65536, 0>>

\* u32::checked_add
checked_add(a, b) ==
  LET lo == a[2] + b[2]
      hi == a[1] + b[1] + (lo \div 65536)
  IN IF hi >= 65536 THEN Overflow ELSE <<hi, lo % 65536>>

\* u32::checked_mul of a by b, by doubling (a partial sum never exceeds the
\* product, so it overflows exactly when the product does)
RECURSIVE checked_mul(_, _)
checked_mul(a, b) ==
  IF b = 0 THEN u32(0)
  ELSE LET half == checked_mul(a, b \div 2)
           twice == IF half = Overflow THEN Overflow ELSE checked_add(half, half)
       IN IF twice = Overflow THEN Overflow
          ELSE IF (b % 2) = 1 THEN checked_add(twice, a)
          ELSE twice

\* u32::checked_pow
RECURSIVE checked_pow(_, _)
checked_pow(base, exp) ==
  IF exp = 0 THEN u32(1)
  ELSE LET acc == checked_pow(base, exp - 1)
       IN IF acc = Overflow THEN Overflow ELSE checked_mul(acc, base)

\* u32::is_power_of_two
RECURSIVE is_power_of_two(_)
is_power_of_two(x) ==
  x > 0 /\ (x = 1 \/ ((x % 2) = 0 /\ is_power_of_two(x \div 2)))

\* u32::trailing_zeros of a non-zero value
RECURSIVE trailing_zeros(_)
trailing_zeros(x) == IF (x % 2) = 1 THEN 0 ELSE 1 + trailing_zeros(x \div 2)

\* GridSpec::new without the guard on a zero size
GridSpec_new_zero_size(dim, sz) ==
  IF dim = 0 THEN Err("Shape")
  ELSE LET len == checked_pow(sz, dim) IN
       IF len = Overflow THEN Err("Size")
       ELSE [err |-> "", dimension |-> dim, size |-> sz, length |-> len,
             order |-> None, bits_per_axis |-> None]

\* GridSpec::new
GridSpec_new(dim, sz) ==
  IF dim = 0 THEN Err("Shape")
  ELSE IF sz = 0 THEN Err("Size")
  ELSE LET len == checked_pow(sz, dim) IN
       IF len = Overflow THEN Err("Size")
       ELSE [err |-> "", dimension |-> dim, size |-> sz, length |-> len,
             order |-> None, bits_per_axis |-> None]

\* GridSpec::power_of_two that accepts every non-zero size
GridSpec_power_of_two_any_size(dim, sz) ==
  IF sz = 0 THEN Err("Size")
  ELSE LET spec == GridSpec_new(dim, sz) IN
       IF spec.err # "" THEN spec
       ELSE [spec EXCEPT !.order = trailing_zeros(sz),
                         !.bits_per_axis = trailing_zeros(sz)]

\* GridSpec::power_of_two
GridSpec_power_of_two(dim, sz) ==
  IF sz = 0 \/ ~is_power_of_two(sz) THEN Err("Size")
  ELSE LET spec == GridSpec_new(dim, sz) IN
       IF spec.err # "" THEN spec
       ELSE [spec EXCEPT !.order = trailing_zeros(sz),
                         !.bits_per_axis = trailing_zeros(sz)]

\* GridSpec::require_index_bits_lt: TRUE when the requirement is met
require_index_bits_lt(spec, limit) ==
  IF spec.bits_per_axis # None
  THEN ~(spec.bits_per_axis * spec.dimension >= limit)
  ELSE TRUE

\* OnionCurve::new with the L=2 guard at dimensions > 3
OnionCurve_new_small_guard(dimensions, side_length) ==
  LET spec == GridSpec_new(dimensions, side_length) IN
  IF spec.err # "" THEN spec
  ELSE IF side_length = 2 /\ dimensions > 3 THEN Err("Size")
  ELSE spec

OnionCurve_new(dimensions, side_length) ==
  LET spec == GridSpec_new(dimensions, side_length) IN
  IF spec.err # "" THEN spec
  ELSE IF side_length = 2 /\ dimensions > 31 THEN Err("Size")
  ELSE spec

HairyOnionCurve_new(dimensions, side_length) == GridSpec_new(dimensions, side_length)

Scan_from_dimensions(dim, sz) == GridSpec_new(dim, sz)

Gray_from_dimensions(dim, sz) ==
  LET spec == GridSpec_power_of_two(dim, sz) IN
  IF spec.err # "" THEN spec
  ELSE IF ~require_index_bits_lt(spec, 32) THEN Err("Size")
  ELSE spec

ZOrder_from_dimensions(dim, sz) ==
  LET spec == GridSpec_power_of_two(dim, sz) IN
  IF spec.err # "" THEN spec
  ELSE IF ~require_index_bits_lt(spec, 32) THEN Err("Size")
  ELSE spec

\* The curve families modelled here.
Curves == {"onion", "hairyonion", "scan", "gray", "zorder"}

from_dimensions(key, dim, sz) ==
  CASE key = "onion" -> OnionCurve_new(dim, sz)
    [] key = "hairyonion" -> HairyOnionCurve_new(dim, sz)
    [] key = "scan" -> Scan_from_dimensions(dim, sz)
    [] key = "gray" -> Gray_from_dimensions(dim, sz)
    [] key = "zorder" -> ZOrder_from_dimensions(dim, sz)

----------------------------------------------------------------------------
\* Curve registry

\* Hilbert::from_dimensions: a power-of-two size and order * N < 32
Hilbert_from_dimensions(dim, sz) ==
  LET spec == GridSpec_power_of_two(dim, sz) IN
  IF spec.err # "" THEN spec
  ELSE IF spec.order * dim >= 32 THEN Err("Size")
  ELSE spec

\* HCurve::from_dimensions: N >= 2, N < 32, a power-of-two size and
\* order * N < 32
HCurve_from_dimensions(dim, sz) ==
  IF dim < 2 THEN Err("Shape")
  ELSE LET spec == GridSpec_power_of_two(dim, sz) IN
       IF spec.err # "" THEN spec
       ELSE IF dim >= 32 THEN Err("Shape")
       ELSE IF spec.order * dim >= 32 THEN Err("Size")
       ELSE spec

\* Per-curve validators
v_hilbert(dim, sz) ==
  LET spec == GridSpec_power_of_two(dim, sz) IN
  IF spec.err # "" THEN spec
  ELSE LET total_bits == spec.order * dim IN
       IF total_bits >= 32 THEN Err("Size") ELSE spec

\* v_hcurve that builds the grid specification before it looks at the
\* dimension floor
v_hcurve_spec_first(dim, sz) ==
  LET spec == GridSpec_power_of_two(dim, sz) IN
  IF spec.err # "" THEN spec
  ELSE IF dim < 2 THEN Err("Shape")
  ELSE IF dim >= 32 THEN Err("Shape")
  ELSE IF spec.order * dim >= 32 THEN Err("Size")
  ELSE spec

v_hcurve(dim, sz) ==
  IF dim < 2 THEN Err("Shape")
  ELSE LET spec == GridSpec_power_of_two(dim, sz) IN
       IF spec.err # "" THEN spec
       ELSE IF dim >= 32 THEN Err("Shape")
       ELSE IF spec.order * dim >= 32 THEN Err("Size")
       ELSE spec

v_zorder(dim, sz) ==
  LET spec == GridSpec_power_of_two(dim, sz) IN
  IF spec.err # "" THEN spec
  ELSE IF ~require_index_bits_lt(spec, 32) THEN Err("Size")
  ELSE spec

v_onion(dim, sz) == GridSpec_new(dim, sz)

v_hairyonion(dim, sz) == GridSpec_new(dim, sz)

v_scan(dim, sz) == GridSpec_new(dim, sz)

v_gray(dim, sz) ==
  LET spec == GridSpec_power_of_two(dim, sz) IN
  IF spec.err # "" THEN spec
  ELSE IF spec.bits_per_axis * dim >= 32 THEN Err("Size")
  ELSE spec

\* Per-curve constructors
c_hilbert(spec) == Hilbert_from_dimensions(spec.dimension, spec.size)

c_hcurve(spec) == HCurve_from_dimensions(spec.dimension, spec.size)

c_zorder(spec) == ZOrder_from_dimensions(spec.dimension, spec.size)

c_onion(spec) == OnionCurve_new(spec.dimension, spec.size)

c_hairyonion(spec) == HairyOnionCurve_new(spec.dimension, spec.size)

c_scan(spec) == Scan_from_dimensions(spec.dimension, spec.size)

c_gray(spec) == Gray_from_dimensions(spec.dimension, spec.size)

\* A CurveEntry; build_spec and ctor name the functions of the entry.
CurveEntry(key, display, constraints, experimental, v, c) ==
  [key |-> key, display |-> display, constraints |-> constraints,
   experimental |-> experimental, build_spec |-> v, ctor |-> c]

REGISTRY ==
  << CurveEntry("hilbert", "Hilbert",
                "size=2^order; order*dimension < 32 (u32 indices)",
                FALSE, "v_hilbert", "c_hilbert"),
     CurveEntry("scan", "Scan", "any size>=1; any dimension>=1",
                FALSE, "v_scan", "c_scan"),
     CurveEntry("zorder", "Z-order (Morton)",
                "size=2^bitwidth; bitwidth*dimension < 32 (u32 indices)",
                FALSE, "v_zorder", "c_zorder"),
     CurveEntry("hcurve", "H-curve",
                "dimension>=2; size=2^order; order*dimension < 32",
                FALSE, "v_hcurve", "c_hcurve"),
     CurveEntry("onion", "Onion",
                "any size>=1; any dimension>=1; length=size^dimension fits u32",
                FALSE, "v_onion", "c_onion"),
     CurveEntry("hairyonion", "Hairy Onion",
                "any size>=1; any dimension>=1; length=size^dimension fits u32",
                TRUE, "v_hairyonion", "c_hairyonion"),
     CurveEntry("gray", "Gray (BRGC)",
                "size=2^bitwidth; bitwidth*dimension < 32 (u32 indices)",
                FALSE, "v_gray", "c_gray") >>

\* (entry.build_spec)(dim, sz)
build_spec(entry, dim, sz) ==
  CASE entry.build_spec = "v_hilbert" -> v_hilbert(dim, sz)
    [] entry.build_spec = "v_scan" -> v_scan(dim, sz)
    [] entry.build_spec = "v_zorder" -> v_zorder(dim, sz)
    [] entry.build_spec = "v_hcurve" -> v_hcurve(dim, sz)
    [] entry.build_spec = "v_onion" -> v_onion(dim, sz)
    [] entry.build_spec = "v_hairyonion" -> v_hairyonion(dim, sz)
    [] entry.build_spec = "v_gray" -> v_gray(dim, sz)

\* (entry.ctor)(&spec)
ctor(entry, spec) ==
  CASE entry.ctor = "c_hilbert" -> c_hilbert(spec)
    [] entry.ctor = "c_scan" -> c_scan(spec)
    [] entry.ctor = "c_zorder" -> c_zorder(spec)
    [] entry.ctor = "c_hcurve" -> c_hcurve(spec)
    [] entry.ctor = "c_onion" -> c_onion(spec)
    [] entry.ctor = "c_hairyonion" -> c_hairyonion(spec)
    [] entry.ctor = "c_gray" -> c_gray(spec)

\* CURVE_NAMES sorted alphabetically instead of in registry order
CURVE_NAMES_sorted ==
  <<"gray", "hairyonion", "hcurve", "hilbert", "onion", "scan", "zorder">>

\* CURVE_NAMES: the keys of the registry, generated from the same list
CURVE_NAMES == [e \in 1..Len(REGISTRY) |-> REGISTRY[e].key]

\* Iterator::filter(..).map(|entry| entry.key).collect() from entry `from` on
RECURSIVE filter_keys(_, _)
filter_keys(flag, from) ==
  IF from > Len(REGISTRY) THEN <<>>
  ELSE IF flag \/ ~REGISTRY[from].experimental
       THEN <<REGISTRY[from].key>> \o filter_keys(flag, from + 1)
       ELSE filter_keys(flag, from + 1)

\* curve_names that lists every entry
curve_names_unfiltered(flag) == filter_keys(TRUE, 1)

\* curve_names
curve_names(flag) == filter_keys(flag, 1)

\* find that falls back to the first entry for a key it does not know
find_or_first(key) ==
  LET hits == {e \in 1..Len(REGISTRY) : REGISTRY[e].key = key}
  IN IF hits = {} THEN <<REGISTRY[1]>>
     ELSE <<REGISTRY[CHOOSE e \in hits : \A f \in hits : e <= f]>>

\* find: the first entry with this key as <<entry>>, <<>> when there is none
find(key) ==
  LET hits == {e \in 1..Len(REGISTRY) : REGISTRY[e].key = key}
  IN IF hits = {} THEN <<>>
     ELSE <<REGISTRY[CHOOSE e \in hits : \A f \in hits : e <= f]>>

\* validate: the error kind, "" for Ok(())
validate(key, dim, sz) ==
  LET found == find(key) IN
  IF Len(found) = 0 THEN Err("Unknown")
  ELSE LET spec == build_spec(found[1], dim, sz) IN
       IF spec.err # "" THEN Err(spec.err)
       ELSE Ok

\* construct: the constructed curve's grid, or the error
construct(key, dim, sz) ==
  LET found == find(key) IN
  IF Len(found) = 0 THEN Err("Unknown")
  ELSE LET spec == build_spec(found[1], dim, sz) IN
       IF spec.err # "" THEN spec
       ELSE ctor(found[1], spec)

----------------------------------------------------------------------------
\* SpaceCurve::point and SpaceCurve::index of the constructed curve

point(index) ==
  CASE curve = "onion" -> OnionCurve_point(dimension, size, length, index)
    [] curve = "hairyonion" -> HairyOnionCurve_point(dimension, size, length, index)
    [] curve = "scan" -> Scan_point(dimension, size, index)
    [] curve = "gray" -> Gray_point(dimension, bits_per_axis, index)
    [] curve = "zorder" -> ZOrder_point(dimension, bits_per_axis, index)

index(pt) ==
  CASE curve = "onion" -> OnionCurve_index(dimension, size, pt)
    [] curve = "hairyonion" -> HairyOnionCurve_index(dimension, size, pt)
    [] curve = "scan" -> Scan_index(size, pt)
    [] curve = "gray" -> Gray_index(bits_per_axis, pt)
    [] curve = "zorder" -> ZOrder_index(bits_per_axis, pt)

\* Every point of the grid [0, size)^dimension.
Grid == [1..dimension -> 0..(size - 1)]

----------------------------------------------------------------------------
\* The caller: a curve is constructed once (it is immutable afterwards) and
\* then point and index are called on it.
\*   op    what the caller did last
\*   i     the index last passed to point (None if none)
\*   p     the point last returned by point, or last passed to index
\*   r     the result of the last index call (None if none)
\*   q     point(r) after an index call on a chosen point
\*   prev  the point of index i - 1 during a walk over 0, 1, 2, ...
\*   seen  the points returned so far during the walk

\* No registry call has been made.
NoCall ==
  /\ call = "none"
  /\ args = [key |-> "", dimension |-> 0, size |-> 0]
  /\ ret = Ok
  /\ found_entry = <<>>
  /\ include_experimental = FALSE
  /\ names = <<>>

\* No rectangular onion is in use.
NoRect ==
  /\ rect_sizes = <<>>
  /\ rect_op = "ready"
  /\ rect_i = None
  /\ rect_p = <<>>
  /\ rect_r = None
  /\ rect_q = <<>>

\* No membership mask has been built: the scratch buffer is a new Vec.
NoMask ==
  /\ scratch = <<>>
  /\ segments = <<>>
  /\ total_points = 0
  /\ mask = <<>>
  /\ mask_op = "none"

\* No shell is being partitioned.
NoPart ==
  /\ part_dimension = 0
  /\ part_size = 0
  /\ part_op = "ready"
  /\ part_side = 0
  /\ part_sizes = <<>>
  /\ part_total = 0

\* No curve has been constructed.
NoGrid ==
  /\ curve = ""
  /\ dimension = 0
  /\ size = 0
  /\ length = 0
  /\ bits_per_axis = None
  /\ op = "ready"
  /\ i = None
  /\ p = <<>>
  /\ r = None
  /\ q = <<>>
  /\ prev = <<>>
  /\ seen = {}

Idle == /\ op' = "ready"
        /\ i' = None
        /\ p' = <<>>
        /\ r' = None
        /\ q' = <<>>
        /\ prev' = <<>>
        /\ seen' = {}

Init ==
  \E key \in Curves, dim \in 0..MaxDim, sz \in 0..MaxSide :
    LET c == from_dimensions(key, dim, sz) IN
    /\ c.err = ""
    /\ c.length[1] = 0
    /\ u32_value(c.length) <= MaxLen
    /\ curve = key
    /\ dimension = c.dimension
    /\ size = c.size
    /\ length = u32_value(c.length)
    /\ bits_per_axis = c.bits_per_axis
    /\ op = "ready"
    /\ i = None
    /\ p = <<>>
    /\ r = None
    /\ q = <<>>
    /\ prev = <<>>
    /\ seen = {}
    /\ NoCall
    /\ NoRect
    /\ NoMask
  /\ NoPart

Fixed == UNCHANGED <<curve, dimension, size, length, bits_per_axis,
                     registry_vars, rect_vars, mask_vars, part_vars>>

\* curve.point(j) for an index in range
CallPoint(j) ==
  /\ op = "ready"
  /\ i' = j
  /\ p' = point(j)
  /\ op' = "point"
  /\ UNCHANGED <<r, q, prev, seen>>
  /\ Fixed

\* curve.index(&p) on the point just returned
CallIndex ==
  /\ op \in {"point", "walk"}
  /\ r' = index(p)
  /\ op' = "index"
  /\ prev' = <<>>
  /\ seen' = {}
  /\ UNCHANGED <<i, p, q>>
  /\ Fixed

\* curve.index(&pt) for a point of the grid
CallIndexOf(pt) ==
  /\ op = "ready"
  /\ p' = pt
  /\ r' = index(pt)
  /\ op' = "index_of"
  /\ UNCHANGED <<i, q, prev, seen>>
  /\ Fixed

\* curve.point(r) on the index just returned
CallPointOf ==
  /\ op = "index_of"
  /\ r >= 0
  /\ q' = point(r)
  /\ op' = "point_of"
  /\ UNCHANGED <<i, p, r, prev, seen>>
  /\ Fixed

\* start of the loop `for idx in 0..curve.length()`
Begin ==
  /\ op = "ready"
  /\ i' = 0
  /\ p' = point(0)
  /\ prev' = <<>>
  /\ seen' = {point(0)}
  /\ op' = "walk"
  /\ UNCHANGED <<r, q>>
  /\ Fixed

\* next iteration of the loop
Step ==
  /\ op = "walk"
  /\ i + 1 < length
  /\ i' = i + 1
  /\ prev' = p
  /\ p' = point(i + 1)
  /\ seen' = seen \cup {point(i + 1)}
  /\ UNCHANGED <<op, r, q>>
  /\ Fixed

\* the caller drops its results and is ready for the next call
Return ==
  /\ op # "ready"
  /\ Idle
  /\ Fixed

Next ==
  \/ \E j \in 0..(length - 1) : CallPoint(j)
  \/ CallIndex
  \/ \E pt \in Grid : CallIndexOf(pt)
  \/ CallPointOf
  \/ Begin
  \/ Step
  \/ Return

Spec == Init /\ [][Next]_vars

----------------------------------------------------------------------------
\* The caller of the grid specification and of the registry: each call is
\* made with a key, a dimension and a size and returns before the next.
\*   call  the function called last ("none" between calls)
\*   args  its arguments (key "" where the function takes none)
\*   ret   the result it returned (Ok where it returns an entry)
\*   found_entry  what find returned: <<the entry>>, or <<>> for none
\*   include_experimental  the argument of curve_names
\*   names  what curve_names returned

\* The keys passed to the registry: the registered ones and some others.
Keys == {REGISTRY[e].key : e \in 1..Len(REGISTRY)} \cup {"banana", "Hilbert", ""}

Dimensions == 0..MaxDimension

Sizes == (0..MaxSmallSize) \cup {pow(2, k) : k \in 0..MaxOrder}
           \cup {pow(2, k) - 1 : k \in 0..MaxOrder}

NoCurve == UNCHANGED <<curve_vars, rect_vars, mask_vars, part_vars>>

RegistryInit ==
  /\ curve = ""
  /\ dimension = 0
  /\ size = 0
  /\ length = 0
  /\ bits_per_axis = None
  /\ op = "ready"
  /\ i = None
  /\ p = <<>>
  /\ r = None
  /\ q = <<>>
  /\ prev = <<>>
  /\ seen = {}
  /\ NoCall
  /\ NoRect
  /\ NoMask
  /\ NoPart

\* GridSpec::new(dim, sz)
CallGridSpecNew(dim, sz) ==
  /\ call = "none"
  /\ call' = "GridSpec::new"
  /\ args' = [key |-> "", dimension |-> dim, size |-> sz]
  /\ ret' = GridSpec_new(dim, sz)
  /\ found_entry' = <<>>
  /\ include_experimental' = FALSE
  /\ names' = <<>>
  /\ NoCurve

\* GridSpec::power_of_two(dim, sz)
CallGridSpecPowerOfTwo(dim, sz) ==
  /\ call = "none"
  /\ call' = "GridSpec::power_of_two"
  /\ args' = [key |-> "", dimension |-> dim, size |-> sz]
  /\ ret' = GridSpec_power_of_two(dim, sz)
  /\ found_entry' = <<>>
  /\ include_experimental' = FALSE
  /\ names' = <<>>
  /\ NoCurve

\* registry::find(key)
CallFind(key) ==
  /\ call = "none"
  /\ call' = "find"
  /\ args' = [key |-> key, dimension |-> 0, size |-> 0]
  /\ ret' = Ok
  /\ found_entry' = find(key)
  /\ include_experimental' = FALSE
  /\ names' = <<>>
  /\ NoCurve

\* registry::validate(key, dim, sz)
CallValidate(key, dim, sz) ==
  /\ call = "none"
  /\ call' = "validate"
  /\ args' = [key |-> key, dimension |-> dim, size |-> sz]
  /\ ret' = validate(key, dim, sz)
  /\ found_entry' = <<>>
  /\ include_experimental' = FALSE
  /\ names' = <<>>
  /\ NoCurve

\* registry::construct(key, dim, sz)
CallConstruct(key, dim, sz) ==
  /\ call = "none"
  /\ call' = "construct"
  /\ args' = [key |-> key, dimension |-> dim, size |-> sz]
  /\ ret' = construct(key, dim, sz)
  /\ found_entry' = <<>>
  /\ include_experimental' = FALSE
  /\ names' = <<>>
  /\ NoCurve

\* registry::curve_names(flag)
CallCurveNames(flag) ==
  /\ call = "none"
  /\ call' = "curve_names"
  /\ args' = [key |-> "", dimension |-> 0, size |-> 0]
  /\ ret' = Ok
  /\ found_entry' = <<>>
  /\ include_experimental' = flag
  /\ names' = curve_names(flag)
  /\ NoCurve

\* the call has returned and its result is dropped
RegistryReturn ==
  /\ call # "none"
  /\ call' = "none"
  /\ args' = [key |-> "", dimension |-> 0, size |-> 0]
  /\ ret' = Ok
  /\ found_entry' = <<>>
  /\ include_experimental' = FALSE
  /\ names' = <<>>
  /\ NoCurve

\* Arguments are only drawn when a call can be made.
RegistryNext ==
  \/ call = "none" /\ \E dim \in Dimensions, sz \in Sizes : CallGridSpecNew(dim, sz)
  \/ call = "none" /\ \E dim \in Dimensions, sz \in Sizes : CallGridSpecPowerOfTwo(dim, sz)
  \/ call = "none" /\ \E key \in Keys : CallFind(key)
  \/ call = "none" /\ \E key \in Keys, dim \in Dimensions, sz \in Sizes :
                         CallValidate(key, dim, sz)
  \/ call = "none" /\ \E key \in Keys, dim \in Dimensions, sz \in Sizes :
                         CallConstruct(key, dim, sz)
  \/ call = "none" /\ \E flag \in BOOLEAN : CallCurveNames(flag)
  \/ RegistryReturn

RegistrySpec == RegistryInit /\ [][RegistryNext]_vars

----------------------------------------------------------------------------
\* The caller of the rectangular onion: a box of per-axis sizes is fixed and
\* onion_index_rect and onion_point_rect are called on it.
\*   rect_sizes  the per-axis side lengths
\*   rect_op     what the caller did last
\*   rect_i      the index last passed to onion_point_rect (None if none)
\*   rect_p      the point it returned, or the point passed to onion_index_rect
\*   rect_r      the result of the last onion_index_rect call (None if none)
\*   rect_q      onion_point_rect(rect_r) after a call on a chosen point

\* Every box within the bounds.
Boxes == UNION {[1..m -> 1..MaxRectSide] : m \in 0..MaxArity}

\* Every point of the box.
RectGrid == {pt \in [1..Len(rect_sizes) -> 0..(MaxRectSide - 1)] :
               \A k \in 1..Len(rect_sizes) : pt[k] < rect_sizes[k]}

RectInit ==
  /\ NoGrid
  /\ NoCall
  /\ NoMask
  /\ NoPart
  /\ rect_sizes \in Boxes
  /\ rect_op = "ready"
  /\ rect_i = None
  /\ rect_p = <<>>
  /\ rect_r = None
  /\ rect_q = <<>>

RectFixed == UNCHANGED <<rect_sizes, curve_vars, registry_vars, mask_vars, part_vars>>

\* onion_index_rect(sizes, pt) for a point of the box
RectCallIndex(pt) ==
  /\ rect_op = "ready"
  /\ rect_p' = pt
  /\ rect_r' = onion_index_rect(rect_sizes, pt)
  /\ rect_op' = "index"
  /\ UNCHANGED <<rect_i, rect_q>>
  /\ RectFixed

\* onion_point_rect(sizes, r) on the index just returned
RectCallPointOf ==
  /\ rect_op = "index"
  /\ rect_r \in 0..(product(rect_sizes) - 1)
  /\ rect_q' = onion_point_rect(rect_sizes, rect_r)
  /\ rect_op' = "point_of"
  /\ UNCHANGED <<rect_i, rect_p, rect_r>>
  /\ RectFixed

\* onion_point_rect(sizes, j) for an index below the volume of the box
RectCallPoint(j) ==
  /\ rect_op = "ready"
  /\ rect_i' = j
  /\ rect_p' = onion_point_rect(rect_sizes, j)
  /\ rect_op' = "point"
  /\ UNCHANGED <<rect_r, rect_q>>
  /\ RectFixed

\* onion_index_rect(sizes, p) on the point just returned
RectCallIndexOf ==
  /\ rect_op = "point"
  /\ rect_p \in RectGrid
  /\ rect_r' = onion_index_rect(rect_sizes, rect_p)
  /\ rect_op' = "index_of"
  /\ UNCHANGED <<rect_i, rect_p, rect_q>>
  /\ RectFixed

\* the caller drops its results
RectReturn ==
  /\ rect_op # "ready"
  /\ rect_op' = "ready"
  /\ rect_i' = None
  /\ rect_p' = <<>>
  /\ rect_r' = None
  /\ rect_q' = <<>>
  /\ RectFixed

RectNext ==
  \/ rect_op = "ready" /\ \E pt \in RectGrid : RectCallIndex(pt)
  \/ RectCallPointOf
  \/ rect_op = "ready" /\ \E j \in 0..(product(rect_sizes) - 1) : RectCallPoint(j)
  \/ RectCallIndexOf
  \/ RectReturn

RectSpec == RectInit /\ [][RectNext]_vars

----------------------------------------------------------------------------
\* The shells of an onion grid and their partitions: a grid (N, S) is fixed, a
\* level is chosen, and partition_sizes and shell_size are evaluated on the
\* shell side s = S - 2 * level, as the debug assertion of onion_shell_index
\* does.
\*   part_dimension, part_size   the grid
\*   part_op      what was evaluated last
\*   part_side    the side of the chosen shell
\*   part_sizes   partition_sizes(N, s)
\*   part_total   shell_size(N, s)

PartInit ==
  /\ NoGrid
  /\ NoCall
  /\ NoRect
  /\ NoMask
  /\ part_dimension \in 1..MaxDim
  /\ part_size \in 1..MaxSide
  /\ part_op = "ready"
  /\ part_side = 0
  /\ part_sizes = <<>>
  /\ part_total = 0

PartFixed == UNCHANGED <<part_dimension, part_size, curve_vars, registry_vars,
                         rect_vars, mask_vars>>

\* partition_sizes(N, s) on the shell of the level
CallPartitionSizes(level) ==
  /\ part_op = "ready"
  /\ part_size - 2 * level >= 1
  /\ part_side' = part_size - 2 * level
  /\ part_sizes' = partition_sizes(part_dimension, part_size - 2 * level)
  /\ part_op' = "partition_sizes"
  /\ UNCHANGED part_total
  /\ PartFixed

\* shell_size(N, s) on the same shell
CallShellSize ==
  /\ part_op = "partition_sizes"
  /\ part_total' = shell_size(part_dimension, part_side)
  /\ part_op' = "shell_size"
  /\ UNCHANGED <<part_side, part_sizes>>
  /\ PartFixed

PartReturn ==
  /\ part_op = "shell_size"
  /\ part_op' = "ready"
  /\ part_side' = 0
  /\ part_sizes' = <<>>
  /\ part_total' = 0
  /\ PartFixed

PartNext ==
  \/ \E level \in 0..(MaxSide \div 2) : CallPartitionSizes(level)
  \/ CallShellSize
  \/ PartReturn

PartSpec == PartInit /\ [][PartNext]_vars

----------------------------------------------------------------------------
\* The snake membership mask: one scratch buffer is handed to every call of
\* snake_membership_mask.
\*   scratch       the buffer (element k + 1 is scratch[k])
\*   segments      the segment indices of the last call
\*   total_points  the number of points of the last call
\*   mask          the slice the last call returned
\*   mask_op       "mask" once a call has returned

\* Vec::resize(new_len, value): new slots get value, the others are kept
Vec_resize(v, new_len, value) ==
  IF new_len <= Len(v) THEN SubSeq(v, 1, new_len)
  ELSE v \o [k \in 1..(new_len - Len(v)) |-> value]

\* v[..n].fill(value)
fill_prefix(v, n, value) == [k \in 1..Len(v) |-> IF k <= n THEN value ELSE v[k]]

\* the loop over segments: scratch[segment_index] = true when in range
RECURSIVE mark_segments(_, _, _, _)
mark_segments(v, segs, total, n) ==
  IF n > Len(segs) THEN v
  ELSE mark_segments(IF segs[n] < total THEN [v EXCEPT ![segs[n] + 1] = TRUE] ELSE v,
                     segs, total, n + 1)

\* the scratch buffer after snake_membership_mask(segs, total, scr); the
\* mask returned is its first `total` elements
snake_membership_mask(segs, total, scr) ==
  LET cleared == IF Len(scr) < total THEN Vec_resize(scr, total, FALSE)
                 ELSE fill_prefix(scr, total, FALSE)
  IN mark_segments(cleared, segs, total, 1)

\* Check membership in a boolean mask safely.
snake_mask_contains(m, idx) == IF idx < Len(m) THEN m[idx + 1] ELSE FALSE

\* the segment lists of a call
SegmentLists == UNION {[1..n -> 0..MaxPoints] : n \in 0..MaxSegments}

MaskInit ==
  /\ NoGrid
  /\ NoCall
  /\ NoRect
  /\ NoPart
  /\ NoMask

\* let mask = snake_membership_mask(&segs, total, &mut scratch)
CallMask(segs, total) ==
  /\ scratch' = snake_membership_mask(segs, total, scratch)
  /\ mask' = SubSeq(snake_membership_mask(segs, total, scratch), 1, total)
  /\ segments' = segs
  /\ total_points' = total
  /\ mask_op' = "mask"
  /\ UNCHANGED <<curve_vars, registry_vars, rect_vars, part_vars>>

MaskNext == \E segs \in SegmentLists, total \in 0..MaxPoints : CallMask(segs, total)

MaskSpec == MaskInit /\ [][MaskNext]_vars

----------------------------------------------------------------------------
\* Properties

abs(x) == IF x < 0 THEN -x ELSE x

RECURSIVE manhattan(_, _)
manhattan(a, b) ==
  IF Len(a) = 0 THEN 0
  ELSE abs(Head(a) - Head(b)) + manhattan(Tail(a), Tail(b))

diff_axes(a, b) == {k \in 1..Len(a) : a[k] # b[k]}

in_grid(pt) == Len(pt) = dimension /\ \A k \in 1..Len(pt) : pt[k] \in 0..(size - 1)

\* C1: for every Onion curve the constructor accepts, index(point(i)) = i
\* for every index i, and point(index(p)) = p for every grid point p.
OnionRoundTrip ==
  curve = "onion" =>
    /\ (op = "index" => r = i)
    /\ (op = "point_of" => q = p)

\* C2: for every Hairy Onion curve, index(point(i)) = i for every index i,
\* and point(index(p)) = p for every grid point p.
HairyOnionRoundTrip ==
  curve = "hairyonion" =>
    /\ (op = "index" => r = i)
    /\ (op = "point_of" => q = p)

\* C2 witness: an index inside an odd (reflected) tile of a 4-D side-3
\* Hairy Onion has been decoded and encoded again.
HairyOnionRoundTripWitness ==
  /\ curve = "hairyonion" /\ dimension = 4 /\ size = 3
  /\ op = "index"
  /\ i = 12
  /\ (i \div 9) % 2 = 1
  /\ r = i

\* C3: for every Scan curve, index(point(i)) = i for every index i, and
\* point(index(p)) = p for every grid point p.
ScanRoundTrip ==
  curve = "scan" =>
    /\ (op = "index" => r = i)
    /\ (op = "point_of" => q = p)

\* C3 witness: a point in a reversed row of an even-sided 3-D scan has been
\* encoded and decoded again.
ScanRoundTripWitness ==
  /\ curve = "scan" /\ dimension = 3 /\ size = 4
  /\ op = "point_of"
  /\ p = <<2, 1, 3>>
  /\ q = p

\* C4: for every Gray curve, index(point(i)) = i for every index i.
GrayRoundTrip ==
  (curve = "gray" /\ op = "index") => r = i

\* C4 witness: an index of a 2-D side-4 Gray curve whose Gray code differs
\* from it has been decoded and encoded again.
GrayRoundTripWitness ==
  /\ curve = "gray" /\ dimension = 2 /\ size = 4
  /\ op = "index"
  /\ i = 6
  /\ graycode(i) # i
  /\ r = i

\* The Z-order sequence of the 4 x 4 grid.
ZOrderSequence4 ==
  << <<0, 0>>, <<1, 0>>, <<0, 1>>, <<1, 1>>, <<2, 0>>, <<3, 0>>, <<2, 1>>, <<3, 1>>,
     <<0, 2>>, <<1, 2>>, <<0, 3>>, <<1, 3>>, <<2, 2>>, <<3, 2>>, <<2, 3>>, <<3, 3>> >>

\* C5: for every Z-order curve, bit b of coordinate k of point(i) is bit
\* b*N + k of i, index(point(i)) = i, and for N = 2, S = 4 the points come
\* in the order (0,0),(1,0),(0,1),(1,1),(2,0),(3,0),(2,1),(3,1),(0,2),...
ZOrderBits ==
  curve = "zorder" =>
    /\ (op \in {"point", "walk", "index"} =>
          /\ Len(p) = dimension
          /\ \A k \in 0..(dimension - 1) :
               /\ \A b \in 0..(bits_per_axis - 1) :
                     bit(p[k + 1], b) = bit(i, b * dimension + k)
               /\ p[k + 1] < pow(2, bits_per_axis))
    /\ (op = "index" => r = i)
    /\ ((op \in {"point", "walk"} /\ dimension = 2 /\ size = 4) =>
          p = ZOrderSequence4[i + 1])

\* C5 witness: index 6 of the 4 x 4 Z-order curve has been decoded to (2,1).
ZOrderBitsWitness ==
  /\ curve = "zorder" /\ dimension = 2 /\ size = 4
  /\ op = "point"
  /\ i = 6
  /\ p = <<2, 1>>

\* C6: for every Onion curve with N >= 2 and S >= 2 the points point(0),
\* ..., point(S^N - 1) are pairwise distinct and index(point(i)) = i.
OnionPermutation ==
  (curve = "onion" /\ dimension >= 2 /\ size >= 2) =>
    /\ (op = "walk" => Cardinality(seen) = i + 1)
    /\ (op = "index" => r = i)

\* C6 witness: the walk over a 3-D side-5 Onion curve has returned all 125
\* points, the last one being the centre.
OnionPermutationWitness ==
  /\ curve = "onion" /\ dimension = 3 /\ size = 5
  /\ op = "walk"
  /\ i = length - 1
  /\ p = <<2, 2, 2>>
  /\ Cardinality(seen) = 125

\* C7: for every Onion, Hairy Onion and Scan curve, point(i) has exactly N
\* coordinates, each in [0, S), and index(p) lies in [0, S^N).
CurveRange ==
  curve \in {"onion", "hairyonion", "scan"} =>
    /\ (op \in {"point", "walk"} => in_grid(p))
    /\ (op = "point_of" => in_grid(q))
    /\ (op \in {"index", "index_of"} => r \in 0..(length - 1))

\* C7 witness: the last index of a reversed-row 2-D scan has been decoded
\* to a point of the grid.
CurveRangeWitness ==
  /\ curve = "scan" /\ dimension = 2 /\ size = 4
  /\ op = "point"
  /\ i = 7
  /\ p = <<0, 1>>


\* C8 as stated: for every Gray curve (any power-of-two side) and every i
\* in (0, L), point(i-1) and point(i) differ in exactly one axis, and in
\* that axis by exactly 1.
GrayUnitStep ==
  (curve = "gray" /\ op = "walk" /\ i > 0) =>
    /\ Cardinality(diff_axes(prev, p)) = 1
    /\ manhattan(prev, p) = 1

\* C8 amended: for every Gray curve and every i in (0, L), point(i-1) and
\* point(i) differ in exactly one axis, and in that axis in exactly one bit
\* (a difference of 2^b for some b < log2 S); for S = 2 the difference is 1.
GrayOneBitStep ==
  (curve = "gray" /\ op = "walk" /\ i > 0) =>
    /\ Cardinality(diff_axes(prev, p)) = 1
    /\ \A k \in diff_axes(prev, p) :
         \E b \in 0..(bits_per_axis - 1) :
            /\ bitxor(prev[k], p[k]) = pow(2, b)
            /\ abs(prev[k] - p[k]) = pow(2, b)
    /\ (size = 2 => manhattan(prev, p) = 1)

\* C8 witness: the walk over the 4 x 4 Gray curve has stepped from index 3
\* to index 4, which flips bit 1 of the first coordinate.
GrayOneBitStepWitness ==
  /\ curve = "gray" /\ dimension = 2 /\ size = 4
  /\ op = "walk"
  /\ i = 4
  /\ prev = <<0, 1>>
  /\ p = <<2, 1>>

\* C9: for every Scan curve and every i in (0, S^N), the Manhattan distance
\* between point(i-1) and point(i) is exactly 1.
ScanContinuity ==
  (curve = "scan" /\ op = "walk" /\ i > 0) => manhattan(prev, p) = 1

\* C9 witness: the walk over a 3-D side-4 scan has crossed from the last
\* point of plane z = 0 to the first point of plane z = 1.
ScanContinuityWitness ==
  /\ curve = "scan" /\ dimension = 3 /\ size = 4
  /\ op = "walk"
  /\ i = 16
  /\ prev[3] = 0
  /\ p[3] = 1
  /\ manhattan(prev, p) = 1

\* C10: for every 2-D Onion curve and every i in (0, S^2), the Manhattan
\* distance between point(i-1) and point(i) is exactly 1, ring transitions
\* included; for S = 3 the points come in the order (0,0),(1,0),(2,0),
\* (2,1),(2,2),(1,2),(0,2),(0,1),(1,1).
Onion2DContinuity ==
  LET sequence3 == << <<0, 0>>, <<1, 0>>, <<2, 0>>, <<2, 1>>, <<2, 2>>,
                      <<1, 2>>, <<0, 2>>, <<0, 1>>, <<1, 1>> >>
  IN (curve = "onion" /\ dimension = 2 /\ op = "walk") =>
       /\ (i > 0 => manhattan(prev, p) = 1)
       /\ (size = 3 => p = sequence3[i + 1])

\* C10 witness: the walk over the 5 x 5 Onion curve has stepped from the
\* last point of the outer ring to the first point of the next ring.
Onion2DContinuityWitness ==
  /\ curve = "onion" /\ dimension = 2 /\ size = 5
  /\ op = "walk"
  /\ i = 16
  /\ prev = <<0, 1>>
  /\ p = <<1, 1>>

\* C11: for every Onion curve with side S = 2 and every i in (0, 2^N),
\* point(i-1) and point(i) differ in exactly one coordinate, by exactly 1.
OnionL2GrayStep ==
  (curve = "onion" /\ size = 2 /\ op = "walk" /\ i > 0) =>
    /\ Cardinality(diff_axes(prev, p)) = 1
    /\ manhattan(prev, p) = 1

\* C11 witness: the walk over the 4-D side-2 Onion curve has stepped from
\* index 7 to index 8, where the last coordinate flips and the lower three
\* are kept because the upper half runs backwards.
OnionL2GrayStepWitness ==
  /\ curve = "onion" /\ dimension = 4 /\ size = 2
  /\ op = "walk"
  /\ i = 8
  /\ SubSeq(prev, 1, 3) = SubSeq(p, 1, 3)
  /\ prev[4] = 0
  /\ p[4] = 1

\* C12: for every Hairy Onion curve with N >= 3 and S >= 2 and every tile
\* boundary k in [1, S^(N-2)), the first two coordinates of point(k*S^2 - 1)
\* equal the first two coordinates of point(k*S^2).
HairyTileBoundary ==
  (/\ curve = "hairyonion" /\ dimension >= 3 /\ size >= 2
   /\ op = "walk" /\ i > 0 /\ i % (size * size) = 0) =>
    SubSeq(prev, 1, 2) = SubSeq(p, 1, 2)

\* C12 witness: the walk over the 3-D side-3 Hairy Onion has crossed from
\* tile 0 into tile 1 at the centre of the tile.
HairyTileBoundaryWitness ==
  /\ curve = "hairyonion" /\ dimension = 3 /\ size = 3
  /\ op = "walk"
  /\ i = 9
  /\ prev = <<1, 1, 0>>
  /\ p = <<1, 1, 1>>

\* C13: for every Hairy Onion curve (N >= 1, S >= 1) and every i in
\* (0, S^N), the Manhattan distance between point(i-1) and point(i) is
\* exactly 1.
HairyOnionContinuity ==
  (curve = "hairyonion" /\ op = "walk" /\ i > 0) => manhattan(prev, p) = 1

\* C13 witness: the walk over the 5-D side-2 Hairy Onion has crossed the
\* boundary between tiles 3 and 4, where the tile index itself crosses a
\* tile boundary of the 3-D curve over the remaining axes.
HairyOnionContinuityWitness ==
  /\ curve = "hairyonion" /\ dimension = 5 /\ size = 2
  /\ op = "walk"
  /\ i = 16
  /\ SubSeq(prev, 1, 4) = SubSeq(p, 1, 4)
  /\ prev[5] = 0
  /\ p[5] = 1

\* C14: for every Onion curve and every grid point p of level m, where
\* level(x) = min over k of min(x_k, S-1-x_k), index(p) lies in the block
\* that starts at the sum of shell_size(N, S-2j) for j < m and has length
\* shell_size(N, S-2m); hence level(p) < level(q) implies index(p) < index(q).
OnionLevelBlocks ==
  (curve = "onion" /\ op = "index_of") =>
    LET depth(k) == min2(p[k], size - 1 - p[k])
        m == CHOOSE d \in 0..size :
               /\ \E k \in 1..dimension : depth(k) = d
               /\ \A k \in 1..dimension : depth(k) >= d
        start == sum_take([j \in 1..m |-> shell_size(dimension, size - 2 * (j - 1))], m)
    IN /\ start <= r
       /\ r < start + shell_size(dimension, size - 2 * m)

\* C15: for N = 1 and N = 2 and every side S, HairyOnionCurve returns the
\* same point(i) for every i and the same index(p) for every p as
\* OnionCurve.
HairyEqualsOnionLowDim ==
  (curve = "hairyonion" /\ dimension <= 2) =>
    /\ (op \in {"point", "walk"} =>
          p = OnionCurve_point(dimension, size, length, i))
    /\ (op = "index_of" => r = OnionCurve_index(dimension, size, p))

\* floor((2^32 - 1) / b) for 2 <= b <= 2^30, from 2^32 - 1 = 2 * (2^31 - 1) + 1
u32_max_div(b) ==
  (2 * (2147483647 \div b)) + (((2 * (2147483647 % b)) + 1) \div b)

\* x divided by b, k times over
RECURSIVE div_times(_, _, _)
div_times(x, b, k) == IF k = 0 THEN x ELSE div_times(x \div b, b, k - 1)

\* b^e <= 2^32 - 1, decided by dividing 2^32 - 1 by b, e times over
power_fits_u32(b, e) ==
  IF e = 0 \/ b <= 1 THEN TRUE
  ELSE div_times(u32_max_div(b), b, e - 1) >= 1

\* x = b^k, decided by dividing x by b exactly, k times over
RECURSIVE is_power_of(_, _, _)
is_power_of(x, b, k) ==
  IF k = 0 THEN x = 1
  ELSE (x % b) = 0 /\ is_power_of(x \div b, b, k - 1)

\* the u32 w = <<hi, lo>> equals b^e, for b >= 1 and e >= 1; the first
\* division is done on w / 2 so that nothing exceeds 2^31 - 1
u32_is_power_of(w, b, e) ==
  IF b = 1 THEN w = <<0, 1>>
  ELSE LET h == (w[1] * 32768) + (w[2] \div 2)
           rem == (2 * (h % b)) + (w[2] % 2)
           quot == (2 * (h \div b)) + (rem \div b)
       IN (rem % b) = 0 /\ is_power_of(quot, b, e - 1)

\* sz = 2^k for some k >= 0 with k * dim < 32
power_of_two_with_bits_lt_32(dim, sz) ==
  \E k \in 0..30 : sz = pow(2, k) /\ k * dim < 32

\* C16: GridSpec::new(N, S) succeeds exactly when N >= 1, S >= 1 and
\* S^N <= 2^32 - 1; on success dimension = N, size = S, length = S^N and
\* order and bits_per_axis are absent; with N >= 1 it fails with Size when
\* S = 0 or S^N overflows 32 bits.
GridSpecNewContract ==
  call = "GridSpec::new" =>
    LET N == args.dimension
        S == args.size
    IN /\ ret.err = "" <=> (N >= 1 /\ S >= 1 /\ power_fits_u32(S, N))
       /\ ret.err = "" =>
            /\ ret.dimension = N
            /\ ret.size = S
            /\ u32_is_power_of(ret.length, S, N)
            /\ ret.order = None
            /\ ret.bits_per_axis = None
       /\ (N >= 1 /\ (S = 0 \/ ~power_fits_u32(S, N))) => ret.err = "Size"

\* C16 witness: GridSpec::new(2, 65535) has returned a specification of
\* length 65535^2 = 4294836225, the largest square that fits 32 bits.
GridSpecNewContractWitness ==
  /\ call = "GridSpec::new"
  /\ args.dimension = 2
  /\ args.size = 65535
  /\ ret.err = ""
  /\ ret.length = <<65534, 1>>

\* C17: GridSpec::new(0, S) and GridSpec::power_of_two(0, S) return Shape
\* for every S, also when S = 0 or S is not a power of two.
ZeroDimensionIsShape ==
  (call \in {"GridSpec::new", "GridSpec::power_of_two"} /\ args.dimension = 0) =>
    ret.err = "Shape"

\* C18: for the keys hilbert, zorder and gray and every N >= 1,
\* validate(key, N, S) succeeds exactly when S is a positive power of two
\* and log2(S) * N < 32, and otherwise validate and construct both fail
\* with Size.
PowerOfTwoKeysValidate ==
  (/\ call \in {"validate", "construct"}
   /\ args.key \in {"hilbert", "zorder", "gray"}
   /\ args.dimension >= 1) =>
    LET valid == power_of_two_with_bits_lt_32(args.dimension, args.size)
    IN /\ call = "validate" => (ret.err = "" <=> valid)
       /\ ~valid => ret.err = "Size"

\* C18 witness: construct("zorder", 4, 256) has failed with Size (4 * 8
\* index bits).
PowerOfTwoKeysValidateWitness ==
  /\ call = "construct"
  /\ args = [key |-> "zorder", dimension |-> 4, size |-> 256]
  /\ ret.err = "Size"

\* C19: validate("hcurve", N, S) and construct("hcurve", N, S) fail with
\* Shape whenever N < 2, for every S; and validate("hcurve", N, S) succeeds
\* exactly when 2 <= N < 32, S is a positive power of two and
\* log2(S) * N < 32.
HCurveValidate ==
  (call \in {"validate", "construct"} /\ args.key = "hcurve") =>
    /\ args.dimension < 2 => ret.err = "Shape"
    /\ call = "validate" =>
         (ret.err = "" <=>
            /\ 2 <= args.dimension
            /\ args.dimension < 32
            /\ power_of_two_with_bits_lt_32(args.dimension, args.size))

\* C19 witness: construct("hcurve", 1, 3) has failed with Shape although 3
\* is not a power of two.
HCurveValidateWitness ==
  /\ call = "construct"
  /\ args = [key |-> "hcurve", dimension |-> 1, size |-> 3]
  /\ ret.err = "Shape"

\* C20: for every key that is not exactly one of the seven registered keys,
\* find returns no entry and validate(key, N, S) and construct(key, N, S)
\* return Unknown for every N and S, N = 0 and S = 0 included.
UnknownKey ==
  (/\ call \in {"find", "validate", "construct"}
   /\ args.key \notin {"hilbert", "scan", "zorder", "hcurve", "onion",
                       "hairyonion", "gray"}) =>
    /\ call = "find" => found_entry = <<>>
    /\ call \in {"validate", "construct"} => ret.err = "Unknown"

\* C20 witness: construct("Hilbert", 0, 0) has returned Unknown.
UnknownKeyWitness ==
  /\ call = "construct"
  /\ args = [key |-> "Hilbert", dimension |-> 0, size |-> 0]
  /\ ret.err = "Unknown"

\* C21: curve_names(false) is CURVE_NAMES with exactly the experimental
\* entry hairyonion removed and the relative order kept, i.e. [hilbert,
\* scan, zorder, hcurve, onion, gray]; curve_names(true) equals CURVE_NAMES.
CurveNamesFilter ==
  call = "curve_names" =>
    /\ include_experimental => names = CURVE_NAMES
    /\ ~include_experimental =>
         /\ names = <<"hilbert", "scan", "zorder", "hcurve", "onion", "gray">>
         /\ names = SelectSeq(CURVE_NAMES, LAMBDA k : k # "hairyonion")

\* C21 witness: curve_names(false) has returned six keys, hairyonion not
\* among them.
CurveNamesFilterWitness ==
  /\ call = "curve_names"
  /\ ~include_experimental
  /\ Len(names) = 6
  /\ \A e \in 1..Len(names) : names[e] # "hairyonion"

\* C22: REGISTRY and CURVE_NAMES have the same length and REGISTRY[i].key =
\* CURVE_NAMES[i] for every i; the keys are pairwise distinct and are, in
\* order, hilbert, scan, zorder, hcurve, onion, hairyonion, gray, so
\* find(CURVE_NAMES[i]) returns REGISTRY[i].
RegistryKeysInOrder ==
  /\ Len(REGISTRY) = Len(CURVE_NAMES)
  /\ \A e \in 1..Len(REGISTRY) : REGISTRY[e].key = CURVE_NAMES[e]
  /\ \A e, f \in 1..Len(REGISTRY) : REGISTRY[e].key = REGISTRY[f].key => e = f
  /\ CURVE_NAMES = <<"hilbert", "scan", "zorder", "hcurve", "onion",
                     "hairyonion", "gray">>
  /\ (call = "find" /\ \E e \in 1..Len(CURVE_NAMES) : CURVE_NAMES[e] = args.key) =>
       \E e \in 1..Len(CURVE_NAMES) :
          /\ CURVE_NAMES[e] = args.key
          /\ found_entry = <<REGISTRY[e]>>

\* C22 witness: find("hairyonion") has returned the sixth entry.
RegistryKeysInOrderWitness ==
  /\ call = "find"
  /\ args.key = "hairyonion"
  /\ CURVE_NAMES[6] = "hairyonion"
  /\ found_entry = <<REGISTRY[6]>>

\* C23: for every 2-D Scan curve with side S and every i in [0, S^2),
\* point(i) = (x, y) with y = i div S and x = i mod S when y is even,
\* x = S - 1 - (i mod S) when y is odd; for S = 3 this is (0,0),(1,0),(2,0),
\* (2,1),(1,1),(0,1),(0,2),(1,2),(2,2).
Scan2DSnake ==
  LET snake3 == << <<0, 0>>, <<1, 0>>, <<2, 0>>, <<2, 1>>, <<1, 1>>,
                   <<0, 1>>, <<0, 2>>, <<1, 2>>, <<2, 2>> >>
  IN (curve = "scan" /\ dimension = 2 /\ op \in {"point", "walk"}) =>
       LET y == i \div size
           x == IF (y % 2) = 0 THEN i % size ELSE size - 1 - (i % size)
       IN /\ p = <<x, y>>
          /\ size = 3 => p = snake3[i + 1]

\* C23 witness: index 6 of the 4 x 4 scan has been decoded to (1, 1), a
\* point of a reversed row.
Scan2DSnakeWitness ==
  /\ curve = "scan" /\ dimension = 2 /\ size = 4
  /\ op = "point"
  /\ i = 6
  /\ p = <<1, 1>>

\* C24: for every list of per-axis sizes with every size >= 1 (any arity,
\* sides 1 and 2 and unequal sides included), onion_index_rect maps the box
\* onto [0, product of sizes) and onion_point_rect is its inverse:
\* onion_point_rect(sizes, onion_index_rect(sizes, p)) = p and
\* onion_index_rect(sizes, onion_point_rect(sizes, i)) = i.
RectRoundTrip ==
  /\ rect_op = "index" => rect_r \in 0..(product(rect_sizes) - 1)
  /\ rect_op = "point_of" => rect_q = rect_p
  /\ rect_op = "point" => rect_p \in RectGrid
  /\ rect_op = "index_of" => rect_r = rect_i

\* onion_index_rect and onion_point_rect have been called on the last cell of
\* a box with unequal sides, one of them 1 and one of them 2.
RectRoundTripWitness ==
  /\ rect_op = "index_of"
  /\ rect_sizes = <<3, 1, 2>>
  /\ rect_i = 5
  /\ rect_p \in RectGrid
  /\ rect_r = rect_i

Shell3D(j) ==
  LET sh == point_3d_shell(size, 0, j)
  IN [layer |-> sh[1], side |-> sh[2], first |-> j - sh[3], within |-> sh[3]]

\* shell-local coordinates of the point of index j
Local3D(j) ==
  LET pt == onion_point_3d(size, j)
      layer == Shell3D(j).layer
  IN <<pt[1] - layer, pt[2] - layer, pt[3] - layer>>

\* the indices of an index set form one run
Contiguous(js) ==
  \A a, b \in js : \A c \in a..b : c \in js

\* The blocks of the 3-D shell that holds index i, after point(i) returned p
\* (the blocks are counted when i is the first index of the shell): two full
\* x faces in 2D-onion order, then `strips` strips of s - 2 points
\* (x interior, y and z on the boundary) and four (s-2) x (s-2) rectangles
\* (x interior, one of y, z on the boundary), each a run of indices, together
\* shell_size(3, s) points.
Onion3DShellBlocks(strips) ==
  LET sh == Shell3D(i)
      s == sh.side
      w == sh.within
      face == s * s
      loc == <<p[1] - sh.layer, p[2] - sh.layer, p[3] - sh.layer>>
      ends == {0, s - 1}
      rest == (sh.first + 2 * face)..(sh.first + shell_size(3, s) - 1)
      edges == {<<Local3D(j)[2], Local3D(j)[3]>> :
                  j \in {k \in rest : Local3D(k)[2] \in ends /\ Local3D(k)[3] \in ends}}
      edge(e) == {j \in rest : Local3D(j)[2] = e[1] /\ Local3D(j)[3] = e[2]}
      sides == {<<2, y>> : y \in ends} \cup {<<3, z>> : z \in ends}
      rect(f) == {j \in rest : /\ Local3D(j)[f[1]] = f[2]
                               /\ Local3D(j)[5 - f[1]] \notin ends}
  IN
  /\ w < face =>
       loc[1] = 0 /\ <<loc[2], loc[3]>> = onion_point_nd(2, s, w)
  /\ w >= face /\ w < 2 * face =>
       loc[1] = s - 1 /\ <<loc[2], loc[3]>> = onion_point_nd(2, s, w - face)
  /\ w >= 2 * face =>
       loc[1] \in 1..(s - 2) /\ (loc[2] \in ends \/ loc[3] \in ends)
  /\ w = 0 =>
       /\ \A j \in rest : Local3D(j)[1] \in 1..(s - 2)
       /\ Cardinality(edges) = strips
       /\ \A e \in edges : Cardinality(edge(e)) = s - 2 /\ Contiguous(edge(e))
       /\ \A f \in sides : /\ Cardinality(rect(f)) = (s - 2) * (s - 2)
                            /\ Contiguous(rect(f))
       /\ 2 * face + strips * (s - 2) + 4 * (s - 2) * (s - 2) = shell_size(3, s)

\* point(i) has returned on a 3-D onion of side > 2 and i lies on a shell of
\* side >= 3.
Onion3DShellCalled ==
  /\ curve = "onion"
  /\ dimension = 3
  /\ size > 2
  /\ op = "point"
  /\ Shell3D(i).side >= 3

\* C26 as stated: in the 3-D Onion (N = 3, S > 2) every shell of side s >= 3
\* is the full low-x face, the full high-x face, then eight boundary strips
\* and four interior (s-2) x (s-2) rectangles, together shell_size(3, s)
\* points.
Onion3DEightStrips == Onion3DShellCalled => Onion3DShellBlocks(8)

\* C26: in the 3-D Onion (N = 3, S > 2) every shell of side s >= 3 is the
\* full low-x face (s^2 points, 2D-onion order), the full high-x face (s^2
\* points), then four boundary strips of s - 2 points (the edges parallel to
\* the x axis) and four interior (s-2) x (s-2) rectangles on the remaining
\* four faces, together shell_size(3, s) points.
Onion3DFourStrips == Onion3DShellCalled => Onion3DShellBlocks(4)

\* point(i) has returned a point of the last strip (y and z high) on the
\* inner shell of side 3 of a 7 x 7 x 7 onion.
Onion3DFourStripsWitness ==
  /\ Onion3DShellCalled
  /\ size = 7
  /\ Shell3D(i).side = 3
  /\ Shell3D(i).layer = 2
  /\ p = <<3, 4, 4>>

\* C27: on every valid Onion grid, for every in-range index passed to point
\* and every grid point passed to index, every checked power, product and sum
\* evaluated (shell_size, partition_sizes, the half-face size, the 3-D cube and
\* face volumes, and total, inner volume, pre, post, size(P_j), face_block of
\* onion_index_rect / onion_point_rect) is at most S^N, and neither call
\* panics.
OnionProductsBounded ==
  curve = "onion" =>
    /\ op = "point" =>
         /\ p # PanicPoint
         /\ \A v \in products_point_nd(dimension, size, i % length) : v <= length
    /\ op \in {"index", "index_of"} =>
         /\ r # Panic
         /\ \A v \in products_index_nd(dimension, size, p) : v <= length
    /\ op = "point_of" =>
         /\ q # PanicPoint
         /\ \A v \in products_point_nd(dimension, size, r % length) : v <= length

\* index has returned on a point of a 4-D onion of side 5 whose half-face is
\* a 3 x 3 x 5 box, after evaluating pow(5, 3) = 125 in partition_sizes and
\* size(P_0) = 2 * 1 * 15 = 30 in onion_index_rect.
OnionProductsBoundedWitness ==
  /\ curve = "onion"
  /\ dimension = 4
  /\ size = 5
  /\ op = "index_of"
  /\ p = <<2, 1, 0, 3>>
  /\ r # Panic
  /\ 30 \in products_index_nd(dimension, size, p)
  /\ 125 \in products_index_nd(dimension, size, p)

\* the constructor of a key called directly on (N, S)
direct_ctor(key, dim, sz) ==
  CASE key = "scan" -> Scan_from_dimensions(dim, sz)
    [] key = "zorder" -> ZOrder_from_dimensions(dim, sz)
    [] key = "gray" -> Gray_from_dimensions(dim, sz)
    [] key = "onion" -> OnionCurve_new(dim, sz)
    [] key = "hairyonion" -> HairyOnionCurve_new(dim, sz)

\* C28: for the keys scan, zorder, gray, onion and hairyonion and every
\* (N, S), construct succeeds exactly when validate succeeds and on failure
\* both return the same error kind; the constructor of the key itself (the
\* Onion S = 2, N > 31 guard included) accepts and rejects the same grids.
ConstructAgreesWithValidate ==
  call = "construct" /\ args.key \in {"scan", "zorder", "gray", "onion", "hairyonion"} =>
    /\ ret.err = validate(args.key, args.dimension, args.size).err
    /\ direct_ctor(args.key, args.dimension, args.size).err =
         validate(args.key, args.dimension, args.size).err

\* construct("onion", 32, 2) has returned Size, the grid of the L = 2 guard.
ConstructAgreesWithValidateWitness ==
  /\ call = "construct"
  /\ args.key = "onion"
  /\ args.dimension = 32
  /\ args.size = 2
  /\ ret.err = "Size"

\* Iterations of the loop of shell_for_index until it returns; 0 when it
\* never returns (at side 0 every shell_size is 0 and no index is below it).
RECURSIVE shell_for_index_iterations(_, _, _)
shell_for_index_iterations(dim, side_at_level, idx) ==
  LET sz == shell_size(dim, side_at_level) IN
  IF idx < sz THEN 1
  ELSE IF side_at_level = 0 THEN 0
  ELSE LET more == shell_for_index_iterations(dim, saturating_sub(side_at_level, 2),
                                              idx - sz)
       IN IF more = 0 THEN 0 ELSE 1 + more

\* Iterations of the shell loop of onion_point_3d until it breaks; 0 when it
\* never breaks.
RECURSIVE onion_point_3d_iterations(_, _)
onion_point_3d_iterations(current_len, remaining) ==
  LET next_len == saturating_sub(current_len, 2)
      sz == cube_volume(current_len) - cube_volume(next_len)
  IN IF remaining < sz THEN 1
     ELSE IF current_len = 0 THEN 0
     ELSE LET more == onion_point_3d_iterations(next_len, remaining - sz)
          IN IF more = 0 THEN 0 ELSE 1 + more

\* ceil(S / 2)
half_up(sz) == (sz + 1) \div 2

\* The shell search of OnionCurve::point(j): it ends within ceil(S/2)
\* iterations on a shell of side >= 1 with 0 <= index_within < shell_size.
ShellSearchEnds(j) ==
  LET idx == OnionCurve_point_index(length, j)
      iterations == shell_for_index_iterations(dimension, size, idx)
  IN
  /\ idx < length
  /\ iterations \in 1..half_up(size)
  /\ LET shell == shell_for_index(dimension, size, idx) IN
       /\ shell.side >= 1
       /\ shell.level = iterations - 1
       /\ shell.index_within >= 0
       /\ shell.index_within < shell_size(dimension, shell.side)
  /\ dimension = 3 =>
       /\ onion_point_3d_iterations(size, idx) \in 1..half_up(size)
       /\ LET sh == point_3d_shell(size, 0, idx) IN
            /\ sh[2] >= 1
            /\ sh[3] >= 0
            /\ sh[3] < shell_size(3, sh[2])

\* C29: on every valid Onion grid and for every index i < S^N the shell
\* searches of shell_for_index and onion_point_3d end after at most ceil(S/2)
\* iterations on a shell with side >= 1 and 0 <= index_within <
\* shell_size(N, side); an index >= S^N never enters them because
\* OnionCurve::point reduces it modulo the length (point(i + S^N) searches
\* for i).
ShellSearchTerminates ==
  curve = "onion" /\ op = "point" =>
    /\ ShellSearchEnds(i)
    /\ ShellSearchEnds(i + length)

\* point has returned the centre of a 5-D onion of side 3, found by the
\* second and last iteration (ceil(3/2) = 2) on the shell of side 1.
ShellSearchTerminatesWitness ==
  /\ curve = "onion"
  /\ op = "point"
  /\ dimension = 5
  /\ size = 3
  /\ i = length - 1
  /\ p = <<1, 1, 1, 1, 1>>
  /\ shell_for_index_iterations(dimension, size, i) = 2
  /\ shell_for_index(dimension, size, i).side = 1

\* C30: after any sequence of snake_membership_mask calls on the same scratch
\* buffer, with varying segments and total_points (a call with a larger
\* total_points than every earlier one included), the returned mask has length
\* total_points and for every i < total_points mask[i] is true exactly when i
\* occurs in the segments of that call.
MaskMatchesSegments ==
  mask_op = "mask" =>
    /\ Len(mask) = total_points
    /\ \A k \in 0..(total_points - 1) :
         snake_mask_contains(mask, k) <=> (\E n \in 1..Len(segments) : segments[n] = k)

====
